---------------------------- MODULE Spec2Model ----------------------------
(***************************************************************************)
(* A model of mod-glicko2-mmr: the two rating stores, the arena rating     *)
(* manager (ArenaMMRMgr), and the battleground script (Glicko2BGScript)    *)
(* with its match trackers and matchmaking pool trackers.                  *)
(*                                                                         *)
(* Numbers.  The code's floats are modelled as integers: ratings, rating   *)
(* deviations and ranges in rating points, volatility in hundredths.       *)
(* Averages are kept as exact fractions (sum, count), so a comparison of   *)
(* two averages is made by cross-multiplication and never rounds.          *)
(***************************************************************************)
EXTENDS Integers, FiniteSets, Sequences, TLC

\* ------------------------------------------------------------ bounds
NPlayers == 3
MaxElapsed == 301
MaxMatches == 1
MaxRangeCalls == 2
MaxArenaMatches == 2

\* ------------------------------------------------- program constants
\* enum class ArenaBracket : uint8 (ArenaRatingStorage.h)
SLOT_2v2 == 33
SLOT_3v3 == 1
SLOT_5v5 == 2
MAX_SLOTS == 3
\* PoolTracker::IsStale default maxAgeSeconds
MaxAgeSeconds == 300
\* TeamId of the host (0, 1, 2), as the script's hooks receive it
TEAM_ALLIANCE == 0
TEAM_HORDE == 1
TEAM_NEUTRAL == 2
\* hard-coded fallbacks of Glicko2BGScript::CalculateAverageMMR / CalculateAverageRD
EmptyTeamMMR == 1500
EmptyTeamRD == 200
\* the epoch second the model's clock starts at
StartTime == 1000

Players == 1 .. NPlayers
ArenaBrackets == {SLOT_2v2, SLOT_3v3, SLOT_5v5}

Min(a, b) == IF a <= b THEN a ELSE b
Max(a, b) == IF a >= b THEN a ELSE b
Abs(a) == IF a < 0 THEN -a ELSE a

RECURSIVE SumOver(_, _)
SumOver(f, S) ==
    IF S = {} THEN 0
    ELSE LET x == CHOOSE y \in S : TRUE IN f[x] + SumOver(f, S \ {x})

\* ------------------------------------------------------ configuration
\* The resolved configuration file (sConfigMgr->GetOption), fixed for a run.
Triplet(i, m, r) == [initialRange |-> i, maxRange |-> m, relaxationRate |-> r]

BaseConf ==
    [ Enabled            |-> TRUE,
      ArenaEnabled       |-> TRUE,
      InitialRating      |-> 1500,
      InitialRD          |-> 350,
      InitialVolatility  |-> 6,
      ArenaInitialRating |-> 1500,
      ArenaInitialRD     |-> 350,
      ArenaInitialVolatility |-> 6,
      BG   |-> Triplet(200, 1000, 10),
      R2v2 |-> Triplet(150, 800, 15),
      R3v3 |-> Triplet(200, 1000, 12),
      R5v5 |-> Triplet(250, 1200, 10) ]

Configs ==
    { BaseConf,
      [BaseConf EXCEPT !.Enabled = FALSE],
      [BaseConf EXCEPT !.ArenaEnabled = FALSE],
      [BaseConf EXCEPT !.R2v2 = Triplet(100, 400, 5),
                       !.R3v3 = Triplet(100, 2000, 20),
                       !.ArenaInitialRating = 1400] }

VARIABLES
    cfg,              \* the configuration file's values
    enabled,          \* ArenaMMRMgr::_enabled
    initialRating,    \* ArenaMMRMgr::_initialRating
    initialRD,        \* ArenaMMRMgr::_initialRD
    initialVolatility, \* ArenaMMRMgr::_initialVolatility
    bracketSettings,  \* ArenaMMRMgr::_bracketSettings[MAX_SLOTS]
    configLoaded,     \* ArenaMMRMgr::LoadConfig has run
    arenaRatings,     \* ArenaRatingStorage::_ratings, keyed <<guid, bracket>>
    bgRatings,        \* Glicko2PlayerStorage::_ratings, keyed guid
    arenaDB,          \* table character_arena_stats, keyed <<guid, slot>>
    bgDB,             \* table character_battleground_rating, keyed guid
    storeMutex,       \* ArenaRatingStorage::_mutex: its exclusive owner and shared owners
    playerMutex,      \* Glicko2PlayerStorage::_mutex: its exclusive owner and shared owners
    poolMutex,        \* Glicko2BGScript::_poolMutex: the thread that owns it, or NoOwner
    matchMutex,       \* Glicko2BGScript::_matchMutex: the thread that owns it, or NoOwner
    thr,              \* the threads calling into the stores: position and locals
    poolTracking,     \* Glicko2BGScript::_poolTracking, keyed <<queue, bracketId>>
    now,              \* time(nullptr)
    activeMatches,    \* Glicko2BGScript::_activeMatches, keyed instance id
    hostBG,           \* the host's battlegrounds: GetPlayers(), the winner, who was rewarded
    matchCount,       \* settlements run so far (bounds the model)
    rangeCalls,       \* the GetRelaxedMMRRange calls made, newest last
    lastStore,        \* the last store operation and its arguments
    lastGate,         \* the last CanAddGroupToMatchingPool call and its outcome
    lastSettle,       \* the last settlement and the ratings it started from
    scriptMgr         \* the host's ScriptMgr: the registered scripts and the server's phase

mgrVars == <<enabled, initialRating, initialRD, initialVolatility, bracketSettings,
            configLoaded, scriptMgr>>
storeVars == <<arenaRatings, bgRatings>>
dbVars == <<arenaDB, bgDB>>
thrVars == <<storeMutex, playerMutex, poolMutex, matchMutex, thr>>
gateVars == <<poolTracking, now>>
matchVars == <<activeMatches, hostBG, matchCount>>
histVars == <<rangeCalls, lastStore, lastGate, lastSettle>>
vars == <<cfg, mgrVars, storeVars, dbVars, thrVars, gateVars, matchVars, histVars>>

\* ------------------------------------------------- ArenaRatingStorage
ArenaRatingData(r, rd, v, mp, w, l, b, ld) ==
    [ rating |-> r, ratingDeviation |-> rd, volatility |-> v,
      matchesPlayed |-> mp, wins |-> w, losses |-> l, bracket |-> b, loaded |-> ld ]

\* ArenaRatingStorage::GetRating: the cached record, else the configured defaults
\* (not inserted into the cache).
ArenaGetRatingClamped(ratings, guid, bracket) ==
    IF <<guid, bracket>> \in DOMAIN ratings
    THEN [ratings[<<guid, bracket>>] EXCEPT !.rating = Min(@, 3000)]
    ELSE ArenaRatingData(cfg.ArenaInitialRating, cfg.ArenaInitialRD,
                         cfg.ArenaInitialVolatility, 0, 0, 0, bracket, FALSE)
ArenaGetRatingStructDefaults(ratings, guid, bracket) ==
    IF <<guid, bracket>> \in DOMAIN ratings
    THEN ratings[<<guid, bracket>>]
    ELSE ArenaRatingData(1500, 350, 6, 0, 0, 0, bracket, FALSE)
ArenaGetRating(ratings, guid, bracket) ==
    IF <<guid, bracket>> \in DOMAIN ratings
    THEN ratings[<<guid, bracket>>]
    ELSE ArenaRatingData(cfg.ArenaInitialRating, cfg.ArenaInitialRD,
                         cfg.ArenaInitialVolatility, 0, 0, 0, bracket, FALSE)

\* _ratings[key] = data
ArenaSetRatingEveryBracket(ratings, guid, bracket, data) ==
    [k \in DOMAIN ratings \cup {<<guid, b>> : b \in ArenaBrackets} |->
        IF k[1] = guid THEN data ELSE ratings[k]]
ArenaSetRating(ratings, guid, bracket, data) ==
    [k \in DOMAIN ratings \cup {<<guid, bracket>>} |->
        IF k = <<guid, bracket>> THEN data ELSE ratings[k]]

ArenaHasRating(ratings, guid, bracket) == <<guid, bracket>> \in DOMAIN ratings

\* _ratings.erase(key)
ArenaRemoveRatingEveryBracket(ratings, guid, bracket) ==
    [k \in {j \in DOMAIN ratings : j[1] # guid} |-> ratings[k]]
ArenaRemoveRating(ratings, guid, bracket) ==
    [k \in DOMAIN ratings \ {<<guid, bracket>>} |-> ratings[k]]

\* _ratings.clear()
ArenaClearCacheKeepingLoaded(ratings) ==
    [k \in {j \in DOMAIN ratings : ratings[j].loaded} |-> ratings[k]]
ArenaClearCache(ratings) ==
    [k \in {} |-> ratings[k]]

\* _ratings.size()
ArenaGetCacheSize(ratings) == Cardinality(DOMAIN ratings)

\* The keys RemoveAllRatings erases: {guid, static_cast<ArenaBracket>(i)} for
\* i = 0 .. MAX_SLOTS-1.
RemoveAllKeys(guid) == {<<guid, i>> : i \in 0 .. (MAX_SLOTS - 1)}

ArenaRemoveAllRatings(ratings, guid) ==
    [k \in DOMAIN ratings \ RemoveAllKeys(guid) |-> ratings[k]]

\* ----------------------------------------------- Glicko2PlayerStorage
BattlegroundRatingData(r, rd, v, mp, w, l, ld) ==
    [ rating |-> r, ratingDeviation |-> rd, volatility |-> v,
      matchesPlayed |-> mp, wins |-> w, losses |-> l, loaded |-> ld ]

BGGetRating(ratings, guid) ==
    IF guid \in DOMAIN ratings
    THEN ratings[guid]
    ELSE BattlegroundRatingData(cfg.InitialRating, cfg.InitialRD,
                                cfg.InitialVolatility, 0, 0, 0, FALSE)

BGSetRating(ratings, guid, data) ==
    [k \in DOMAIN ratings \cup {guid} |-> IF k = guid THEN data ELSE ratings[k]]

BGHasRating(ratings, guid) == guid \in DOMAIN ratings

\* _ratings.erase(playerGuid)
BGRemoveRating(ratings, guid) == [k \in DOMAIN ratings \ {guid} |-> ratings[k]]

\* _ratings.clear()
BGClearCache(ratings) == [k \in {} |-> ratings[k]]

\* _ratings.size()
BGGetCacheSize(ratings) == Cardinality(DOMAIN ratings)

NoRatings == [k \in {} |-> 0]

\* ------------------------------------------- std::shared_mutex, threads
NThreads == 2
Threads == 1 .. NThreads

\* ArenaRatingData's default member initialisers and default constructor.
DefaultConstructed == ArenaRatingData(1500, 350, 6, 0, 0, 0, SLOT_2v2, FALSE)

\* The members of ArenaRatingData in declaration order, the order in which the
\* implicit copy constructor and copy assignment copy them.
FieldOrder ==
    <<"rating", "ratingDeviation", "volatility", "matchesPlayed", "wins", "losses",
      "bracket", "loaded">>

Unlocked == [writer |-> 0, readers |-> {}]

\* A std::mutex nobody has locked.
NoOwner == 0

\* std::shared_lock lock(_mutex) can be taken while no thread owns it exclusively.
CanLockSharedAlways(m) == TRUE
CanLockShared(m) == m.writer = 0

\* std::unique_lock lock(_mutex) can be taken while no thread owns it at all.
CanLockUnique(m) == m.writer = 0 /\ m.readers = {}

IdleThread ==
    [pc |-> "idle", data |-> DefaultConstructed, idx |-> 0, result |-> DefaultConstructed]

\* ------------------------------------------------------ durable tables
\* A row of character_arena_stats / character_battleground_rating: the columns
\* the loads select.
Row(r, rd, v, mp, w, l) ==
    [ rating |-> r, ratingDeviation |-> rd, volatility |-> v,
      matchesPlayed |-> mp, wins |-> w, losses |-> l ]

\* ArenaRatingStorage::LoadRating: no row, no change; else the row's columns
\* with the queried bracket and loaded = true go through SetRating.
ArenaLoadRating(ratings, db, guid, bracket) ==
    IF <<guid, bracket>> \notin DOMAIN db
    THEN ratings
    ELSE LET row == db[<<guid, bracket>>]
         IN ArenaSetRating(ratings, guid, bracket,
                ArenaRatingData(row.rating, row.ratingDeviation, row.volatility,
                                row.matchesPlayed, row.wins, row.losses,
                                bracket, TRUE))

\* Glicko2PlayerStorage::LoadRating: no row caches the configured defaults with
\* loaded = true; else the row's columns with loaded = true.
BGLoadRating(ratings, db, guid) ==
    IF guid \notin DOMAIN db
    THEN BGSetRating(ratings, guid,
             BattlegroundRatingData(cfg.InitialRating, cfg.InitialRD,
                                    cfg.InitialVolatility, 0, 0, 0, TRUE))
    ELSE LET row == db[guid]
         IN BGSetRating(ratings, guid,
                BattlegroundRatingData(row.rating, row.ratingDeviation,
                                       row.volatility, row.matchesPlayed,
                                       row.wins, row.losses, TRUE))


\* --------------------------------------------------------- ArenaMMRMgr
\* BracketSettings' default member initialisers
DefaultBracketSettings == Triplet(200, 1000, 10)

\* The triplet the configuration file gives a bracket (the one LoadConfig stores
\* for it).
ConfiguredTriplet(bracket) ==
    CASE bracket = SLOT_2v2 -> cfg.R2v2
      [] bracket = SLOT_3v3 -> cfg.R3v3
      [] bracket = SLOT_5v5 -> cfg.R5v5
      [] OTHER -> DefaultBracketSettings

\* What a read of memory past the end of _bracketSettings can yield: whatever
\* LoadConfig stored through the same out-of-bounds index, or whatever else
\* lives there (zeroed static storage, another object's bytes).
OobTriplets == {cfg.R2v2, Triplet(0, 0, 0)}

\* _bracketSettings[static_cast<uint8>(bracket)]: the table holds MAX_SLOTS
\* entries; an index beyond it is an out-of-bounds read.
SettingsRead(bracket) ==
    IF bracket < MAX_SLOTS THEN {bracketSettings[bracket]} ELSE OobTriplets

\* float currentRange = initialRange + relaxationRate * queueTimeSeconds;
\* return std::min(currentRange, maxRange)
RelaxedRange(settings, queueTimeSeconds) ==
    Min(settings.initialRange + settings.relaxationRate * queueTimeSeconds,
        settings.maxRange)

\* ArenaMMRMgr::LoadConfig.  The stores through indices inside the table land
\* in it; the store through SLOT_2v2's index lands outside it.
ArenaLoadConfig ==
    /\ enabled' = cfg.ArenaEnabled
    /\ initialRating' = cfg.ArenaInitialRating
    /\ initialRD' = cfg.ArenaInitialRD
    /\ initialVolatility' = cfg.ArenaInitialVolatility
    /\ bracketSettings' =
         [i \in 0 .. (MAX_SLOTS - 1) |->
            IF \E b \in ArenaBrackets : b = i
            THEN ConfiguredTriplet(i) ELSE bracketSettings[i]]
    /\ configLoaded' = TRUE

\* A call of ArenaMMRMgr::LoadConfig.
LoadConfig ==
    /\ ArenaLoadConfig
    /\ UNCHANGED <<cfg, dbVars, thrVars, storeVars, gateVars, matchVars, histVars,
                   scriptMgr>>

\* The queue times (seconds) GetRelaxedMMRRange is asked about.
RangeTimes == {0, 30, 60, 90, 100, 10000}

\* ArenaMMRMgr::GetRelaxedMMRRange(queueTimeSeconds, bracket), logged.
GetRelaxedMMRRange(t, bracket) ==
    /\ \E settings \in SettingsRead(bracket) :
          LET call == [t |-> t, bracket |-> bracket, loaded |-> configLoaded,
                       result |-> RelaxedRange(settings, t)]
          IN rangeCalls' = IF Len(rangeCalls) < MaxRangeCalls
                           THEN Append(rangeCalls, call)
                           ELSE Append(Tail(rangeCalls), call)
    /\ UNCHANGED <<cfg, dbVars, thrVars, mgrVars, storeVars, gateVars, matchVars,
                   lastStore, lastGate, lastSettle>>

\* --------------------------------------------------------- initial state
NoStoreOp == [op |-> "none", guid |-> 0, bracket |-> 0]
NoGate == [op |-> "none"]
NoSettle == [op |-> "none", winners |-> {}, losers |-> {}, draw |-> FALSE, bracket |-> 0]

\* The state after construction, under configuration c.
\* --------------------------------------------- the module's scripts
\* The script classes the module defines (each Add...Scripts() constructs one,
\* which registers it with the host's ScriptMgr).
ModuleScripts ==
    {"Glicko2PlayerScript", "Glicko2BGScript", "Glicko2CommandScript",
     "Glicko2WorldScript"}

\* Addmod_glicko2_mmrScripts: the scripts its calls register.
LoaderScripts == {"Glicko2PlayerScript", "Glicko2BGScript", "Glicko2CommandScript"}

\* The server once the loader and the startup hooks have run.
RunningServer == [scripts |-> LoaderScripts, phase |-> "running"]

InitState(c, server) ==
    /\ cfg = c
    /\ enabled = TRUE
    /\ initialRating = 1500
    /\ initialRD = 350
    /\ initialVolatility = 6
    /\ bracketSettings = [i \in 0 .. (MAX_SLOTS - 1) |-> DefaultBracketSettings]
    /\ configLoaded = FALSE
    /\ scriptMgr = server
    /\ arenaRatings = NoRatings
    /\ bgRatings = NoRatings
    /\ arenaDB = NoRatings
    /\ bgDB = NoRatings
    /\ storeMutex = Unlocked
    /\ playerMutex = Unlocked
    /\ poolMutex = NoOwner
    /\ matchMutex = NoOwner
    /\ thr = [t \in Threads |-> IdleThread]
    /\ poolTracking = NoRatings
    /\ now = StartTime
    /\ activeMatches = NoRatings
    /\ hostBG = NoRatings
    /\ matchCount = 0
    /\ rangeCalls = <<>>
    /\ lastStore = NoStoreOp
    /\ lastGate = NoGate
    /\ lastSettle = NoSettle

InitWith(c) == InitState(c, RunningServer)

\* ---------------------------------------- specification: the arena store
NStorePlayers == 2
StorePlayers == 1 .. NStorePlayers

\* The records the callers store.
StoreRecords ==
    { ArenaRatingData(1500, 350, 6, 0, 0, 0, b, TRUE) : b \in ArenaBrackets } \cup
    { ArenaRatingData(1650, 120, 6, 5, 4, 1, b, TRUE) : b \in ArenaBrackets }

\* ArenaRatingStorage::SetRating(playerGuid, bracket, data)
SetRating(guid, bracket, data) ==
    /\ arenaRatings' = ArenaSetRating(arenaRatings, guid, bracket, data)
    /\ lastStore' = [op |-> "SetRating", guid |-> guid, bracket |-> bracket,
                     data |-> data]
    /\ UNCHANGED <<cfg, dbVars, thrVars, mgrVars, bgRatings, gateVars, matchVars,
                   rangeCalls, lastGate, lastSettle>>

\* ArenaRatingStorage::RemoveRating(playerGuid, bracket)
RemoveRating(guid, bracket) ==
    /\ arenaRatings' = ArenaRemoveRating(arenaRatings, guid, bracket)
    /\ lastStore' = [op |-> "RemoveRating", guid |-> guid, bracket |-> bracket]
    /\ UNCHANGED <<cfg, dbVars, thrVars, mgrVars, bgRatings, gateVars, matchVars,
                   rangeCalls, lastGate, lastSettle>>

\* ArenaRatingStorage::RemoveAllRatings(playerGuid)
RemoveAllRatings(guid) ==
    /\ arenaRatings' = ArenaRemoveAllRatings(arenaRatings, guid)
    /\ lastStore' = [op |-> "RemoveAllRatings", guid |-> guid, bracket |-> 0]
    /\ UNCHANGED <<cfg, dbVars, thrVars, mgrVars, bgRatings, gateVars, matchVars,
                   rangeCalls, lastGate, lastSettle>>

StoreInit == InitWith(BaseConf)

StoreNext ==
    \/ \E p \in StorePlayers, b \in ArenaBrackets :
          \E data \in {d \in StoreRecords : d.bracket = b} : SetRating(p, b, data)
    \/ \E p \in StorePlayers, b \in ArenaBrackets : RemoveRating(p, b)
    \/ \E p \in StorePlayers : RemoveAllRatings(p)

SpecStore == StoreInit /\ [][StoreNext]_vars

\* ---------------------------------- specification: both caches, loads
NCachePlayers == 2
CachePlayers == 1 .. NCachePlayers
CacheBrackets == {SLOT_2v2, SLOT_3v3}

\* The records the callers store: a played one and an extreme, not loaded one.
ArenaCacheRecords(b) ==
    { ArenaRatingData(1650, 120, 6, 5, 4, 1, b, TRUE),
      ArenaRatingData(4000, 20, 9, 0, 0, 0, b, FALSE) }
BGCacheRecords ==
    { BattlegroundRatingData(1650, 120, 6, 5, 4, 1, TRUE),
      BattlegroundRatingData(4000, 20, 9, 0, 0, 0, FALSE) }

\* The tables' rows when the process starts: player 1 has played before.
CacheArenaDB == [k \in {<<1, SLOT_3v3>>} |-> Row(1720, 90, 6, 7, 4, 3)]
CacheBGDB == [k \in {1} |-> Row(1480, 110, 6, 3, 1, 2)]

\* ArenaRatingStorage::GetRating(playerGuid, bracket)
GetRating(guid, bracket) ==
    /\ lastStore' = [op |-> "GetRating", guid |-> guid, bracket |-> bracket,
                     result |-> ArenaGetRating(arenaRatings, guid, bracket)]
    /\ UNCHANGED <<cfg, dbVars, thrVars, mgrVars, storeVars, gateVars, matchVars,
                   rangeCalls, lastGate, lastSettle>>

\* ArenaRatingStorage::LoadRating(playerGuid, bracket)
LoadRating(guid, bracket) ==
    /\ arenaRatings' = ArenaLoadRating(arenaRatings, arenaDB, guid, bracket)
    /\ lastStore' = [op |-> "LoadRating", guid |-> guid, bracket |-> bracket]
    /\ UNCHANGED <<cfg, dbVars, thrVars, mgrVars, bgRatings, gateVars, matchVars,
                   rangeCalls, lastGate, lastSettle>>

\* ArenaRatingStorage::ClearCache()
ClearCache ==
    /\ arenaRatings' = ArenaClearCache(arenaRatings)
    /\ lastStore' = [op |-> "ClearCache", guid |-> 0, bracket |-> 0]
    /\ UNCHANGED <<cfg, dbVars, thrVars, mgrVars, bgRatings, gateVars, matchVars,
                   rangeCalls, lastGate, lastSettle>>

\* Glicko2PlayerStorage::GetRating(playerGuid)
PlayerGetRating(guid) ==
    /\ lastStore' = [op |-> "PlayerGetRating", guid |-> guid, bracket |-> 0,
                     result |-> BGGetRating(bgRatings, guid)]
    /\ UNCHANGED <<cfg, dbVars, thrVars, mgrVars, storeVars, gateVars, matchVars,
                   rangeCalls, lastGate, lastSettle>>

\* Glicko2PlayerStorage::SetRating(playerGuid, data)
PlayerSetRating(guid, data) ==
    /\ bgRatings' = BGSetRating(bgRatings, guid, data)
    /\ lastStore' = [op |-> "PlayerSetRating", guid |-> guid, bracket |-> 0,
                     data |-> data]
    /\ UNCHANGED <<cfg, dbVars, thrVars, mgrVars, arenaRatings, gateVars, matchVars,
                   rangeCalls, lastGate, lastSettle>>

\* Glicko2PlayerStorage::RemoveRating(playerGuid)
PlayerRemoveRating(guid) ==
    /\ bgRatings' = BGRemoveRating(bgRatings, guid)
    /\ lastStore' = [op |-> "PlayerRemoveRating", guid |-> guid, bracket |-> 0]
    /\ UNCHANGED <<cfg, dbVars, thrVars, mgrVars, arenaRatings, gateVars, matchVars,
                   rangeCalls, lastGate, lastSettle>>

\* Glicko2PlayerStorage::LoadRating(playerGuid)
PlayerLoadRating(guid) ==
    /\ bgRatings' = BGLoadRating(bgRatings, bgDB, guid)
    /\ lastStore' = [op |-> "PlayerLoadRating", guid |-> guid, bracket |-> 0]
    /\ UNCHANGED <<cfg, dbVars, thrVars, mgrVars, arenaRatings, gateVars, matchVars,
                   rangeCalls, lastGate, lastSettle>>

\* Glicko2PlayerStorage::ClearCache()
PlayerClearCache ==
    /\ bgRatings' = BGClearCache(bgRatings)
    /\ lastStore' = [op |-> "PlayerClearCache", guid |-> 0, bracket |-> 0]
    /\ UNCHANGED <<cfg, dbVars, thrVars, mgrVars, arenaRatings, gateVars, matchVars,
                   rangeCalls, lastGate, lastSettle>>

CacheConfigs ==
    { BaseConf,
      [BaseConf EXCEPT !.InitialRating = 1400, !.InitialRD = 300,
                       !.ArenaInitialRating = 1600, !.ArenaInitialRD = 250,
                       !.ArenaInitialVolatility = 5] }

CacheInit ==
    /\ cfg \in CacheConfigs
    /\ enabled = TRUE
    /\ initialRating = 1500
    /\ initialRD = 350
    /\ initialVolatility = 6
    /\ bracketSettings = [i \in 0 .. (MAX_SLOTS - 1) |-> DefaultBracketSettings]
    /\ configLoaded = FALSE
    /\ scriptMgr = RunningServer
    /\ arenaRatings = NoRatings
    /\ bgRatings = NoRatings
    /\ arenaDB = CacheArenaDB
    /\ bgDB = CacheBGDB
    /\ storeMutex = Unlocked
    /\ playerMutex = Unlocked
    /\ poolMutex = NoOwner
    /\ matchMutex = NoOwner
    /\ thr = [t \in Threads |-> IdleThread]
    /\ poolTracking = NoRatings
    /\ now = StartTime
    /\ activeMatches = NoRatings
    /\ hostBG = NoRatings
    /\ matchCount = 0
    /\ rangeCalls = <<>>
    /\ lastStore = NoStoreOp
    /\ lastGate = NoGate
    /\ lastSettle = NoSettle

CacheNext ==
    \/ \E p \in CachePlayers, b \in CacheBrackets : GetRating(p, b)
    \/ \E p \in CachePlayers, b \in CacheBrackets :
          \E data \in ArenaCacheRecords(b) : SetRating(p, b, data)
    \/ \E p \in CachePlayers, b \in CacheBrackets : RemoveRating(p, b)
    \/ \E p \in CachePlayers, b \in CacheBrackets : LoadRating(p, b)
    \/ ClearCache
    \/ \E p \in CachePlayers : PlayerGetRating(p)
    \/ \E p \in CachePlayers : \E data \in BGCacheRecords : PlayerSetRating(p, data)
    \/ \E p \in CachePlayers : PlayerRemoveRating(p)
    \/ \E p \in CachePlayers : PlayerLoadRating(p)
    \/ PlayerClearCache

SpecCache == CacheInit /\ [][CacheNext]_vars

\* ------------------- specification: threads on one arena store key
\* The key every thread works on.
LockGuid == 1
LockBracket == SLOT_3v3
LockKey == <<LockGuid, LockBracket>>

\* The records the writers store; they differ from each other and from the
\* defaults in every numeric member.
LockRecords ==
    { ArenaRatingData(1650, 120, 5, 5, 4, 1, LockBracket, TRUE),
      ArenaRatingData(1800, 90, 7, 9, 6, 3, LockBracket, TRUE) }

\* What a read through an iterator to an erased element can yield.
FreedValues(f) ==
    CASE f = "loaded" -> BOOLEAN
      [] f = "bracket" -> {SLOT_2v2, LockBracket}
      [] OTHER -> {0, 1500}

lockFrame ==
    <<cfg, dbVars, mgrVars, bgRatings, playerMutex, poolMutex, matchMutex, gateVars,
      matchVars, rangeCalls, lastGate, lastSettle>>

\* Another thread has called SetRating or RemoveRating and waits for the lock.
WriterWaiting(t) ==
    \E u \in Threads \ {t} : thr[u].pc \in {"set_wait", "remove_wait"}

\* A thread calls GetRating(LockGuid, LockBracket).
GetRatingCall(t) ==
    /\ thr[t].pc = "idle"
    /\ thr' = [thr EXCEPT ![t].pc = "get_wait"]
    /\ UNCHANGED <<lockFrame, arenaRatings, storeMutex, lastStore>>

\* std::shared_lock lock(_mutex); auto itr = _ratings.find(key);
GetRatingLock(t) ==
    /\ thr[t].pc = "get_wait"
    /\ CanLockShared(storeMutex)
    /\ storeMutex' = [storeMutex EXCEPT !.readers = @ \cup {t}]
    /\ thr' = [thr EXCEPT ![t].pc = IF LockKey \in DOMAIN arenaRatings
                                    THEN "get_copy" ELSE "get_default",
                          ![t].idx = 0]
    /\ UNCHANGED <<lockFrame, arenaRatings, lastStore>>

\* return itr->second: one member of the cached record is copied.
GetRatingCopy(t) ==
    /\ thr[t].pc = "get_copy"
    /\ thr[t].idx < Len(FieldOrder)
    /\ LET f == FieldOrder[thr[t].idx + 1]
       IN \E x \in IF LockKey \in DOMAIN arenaRatings
                   THEN {arenaRatings[LockKey][f]}
                   ELSE FreedValues(f) :
             thr' = [thr EXCEPT ![t].result = [@ EXCEPT ![f] = x],
                                ![t].idx = @ + 1]
    /\ UNCHANGED <<lockFrame, arenaRatings, storeMutex, lastStore>>

\* GetRating returns: the copy, or the configured defaults for a key that was
\* not found; the shared lock is released.
GetRatingReturn(t) ==
    /\ \/ thr[t].pc = "get_copy" /\ thr[t].idx = Len(FieldOrder)
       \/ thr[t].pc = "get_default"
    /\ storeMutex' = [storeMutex EXCEPT !.readers = @ \ {t}]
    /\ lastStore' =
          [op |-> "GetRating", guid |-> LockGuid, bracket |-> LockBracket,
           result |-> IF thr[t].pc = "get_copy"
                      THEN thr[t].result
                      ELSE ArenaGetRating(NoRatings, LockGuid, LockBracket),
           overlapped |-> WriterWaiting(t)]
    /\ thr' = [thr EXCEPT ![t] = IdleThread]
    /\ UNCHANGED <<lockFrame, arenaRatings>>

\* A thread calls SetRating(LockGuid, LockBracket, data).
SetRatingCall(t, data) ==
    /\ thr[t].pc = "idle"
    /\ thr' = [thr EXCEPT ![t].pc = "set_wait", ![t].data = data]
    /\ UNCHANGED <<lockFrame, arenaRatings, storeMutex, lastStore>>

\* std::unique_lock lock(_mutex); _ratings[key] default-constructs a missing
\* element.
SetRatingLock(t) ==
    /\ thr[t].pc = "set_wait"
    /\ CanLockUnique(storeMutex)
    /\ storeMutex' = [storeMutex EXCEPT !.writer = t]
    /\ arenaRatings' =
          IF LockKey \in DOMAIN arenaRatings THEN arenaRatings
          ELSE ArenaSetRating(arenaRatings, LockGuid, LockBracket, DefaultConstructed)
    /\ thr' = [thr EXCEPT ![t].pc = "set_assign", ![t].idx = 0]
    /\ UNCHANGED <<lockFrame, lastStore>>

\* _ratings[key] = data: one member is assigned.
SetRatingAssign(t) ==
    /\ thr[t].pc = "set_assign"
    /\ thr[t].idx < Len(FieldOrder)
    /\ LET f == FieldOrder[thr[t].idx + 1]
       IN arenaRatings' = [arenaRatings EXCEPT ![LockKey][f] = thr[t].data[f]]
    /\ thr' = [thr EXCEPT ![t].idx = @ + 1]
    /\ UNCHANGED <<lockFrame, storeMutex, lastStore>>

\* SetRating returns and releases the exclusive lock.
SetRatingReturn(t) ==
    /\ thr[t].pc = "set_assign"
    /\ thr[t].idx = Len(FieldOrder)
    /\ storeMutex' = [storeMutex EXCEPT !.writer = 0]
    /\ lastStore' = [op |-> "SetRating", guid |-> LockGuid, bracket |-> LockBracket,
                     data |-> thr[t].data]
    /\ thr' = [thr EXCEPT ![t] = IdleThread]
    /\ UNCHANGED <<lockFrame, arenaRatings>>

\* A thread calls RemoveRating(LockGuid, LockBracket).
RemoveRatingCall(t) ==
    /\ thr[t].pc = "idle"
    /\ thr' = [thr EXCEPT ![t].pc = "remove_wait"]
    /\ UNCHANGED <<lockFrame, arenaRatings, storeMutex, lastStore>>

\* std::unique_lock lock(_mutex); _ratings.erase(key);
RemoveRatingErase(t) ==
    /\ thr[t].pc = "remove_wait"
    /\ CanLockUnique(storeMutex)
    /\ storeMutex' = [storeMutex EXCEPT !.writer = t]
    /\ arenaRatings' = ArenaRemoveRating(arenaRatings, LockGuid, LockBracket)
    /\ thr' = [thr EXCEPT ![t].pc = "remove_done"]
    /\ UNCHANGED <<lockFrame, lastStore>>

\* RemoveRating returns and releases the exclusive lock.
RemoveRatingReturn(t) ==
    /\ thr[t].pc = "remove_done"
    /\ storeMutex' = [storeMutex EXCEPT !.writer = 0]
    /\ lastStore' = [op |-> "RemoveRating", guid |-> LockGuid, bracket |-> LockBracket]
    /\ thr' = [thr EXCEPT ![t] = IdleThread]
    /\ UNCHANGED <<lockFrame, arenaRatings>>

LockInit == InitWith(BaseConf)

LockNext ==
    \E t \in Threads :
       \/ GetRatingCall(t)
       \/ GetRatingLock(t)
       \/ GetRatingCopy(t)
       \/ GetRatingReturn(t)
       \/ \E data \in LockRecords : SetRatingCall(t, data)
       \/ SetRatingLock(t)
       \/ SetRatingAssign(t)
       \/ SetRatingReturn(t)
       \/ RemoveRatingCall(t)
       \/ RemoveRatingErase(t)
       \/ RemoveRatingReturn(t)

SpecLock == LockInit /\ [][LockNext]_vars

\* ------------------------------------------- specification: range queries
RangeInit == \E c \in Configs : InitWith(c)

RangeNext ==
    \/ LoadConfig
    \/ \E t \in RangeTimes, b \in ArenaBrackets : GetRelaxedMMRRange(t, b)

SpecRange == RangeInit /\ [][RangeNext]_vars

\* ------------------------------ specification: the server starts up
\* Addmod_glicko2_mmrScripts(): the module's loader, run once while the server
\* loads its modules.
Addmod_glicko2_mmrScripts ==
    /\ scriptMgr.phase = "loading"
    /\ scriptMgr' = [scripts |-> scriptMgr.scripts \cup LoaderScripts, phase |-> "startup"]
    /\ UNCHANGED <<cfg, enabled, initialRating, initialRD, initialVolatility,
                   bracketSettings, configLoaded, dbVars, thrVars, storeVars, gateVars,
                   matchVars, histVars>>

\* The host fires OnStartup on every registered world script:
\* Glicko2WorldScript::OnStartup calls ArenaMMRMgr::LoadConfig.
OnStartup ==
    /\ scriptMgr.phase = "startup"
    /\ scriptMgr' = [scriptMgr EXCEPT !.phase = "running"]
    /\ IF "Glicko2WorldScript" \in scriptMgr.scripts
       THEN ArenaLoadConfig
       ELSE UNCHANGED <<enabled, initialRating, initialRD, initialVolatility,
                        bracketSettings, configLoaded>>
    /\ UNCHANGED <<cfg, dbVars, thrVars, storeVars, gateVars, matchVars, histVars>>

\* The running server: an admission check asks for a bracket's range.
StartupRangeCall(t, bracket) ==
    /\ scriptMgr.phase = "running"
    /\ "Glicko2BGScript" \in scriptMgr.scripts
    /\ GetRelaxedMMRRange(t, bracket)

StartupInit == \E c \in Configs : InitState(c, [scripts |-> {}, phase |-> "loading"])

StartupNext ==
    \/ Addmod_glicko2_mmrScripts
    \/ OnStartup
    \/ \E t \in RangeTimes, b \in ArenaBrackets : StartupRangeCall(t, b)

SpecStartup == StartupInit /\ [][StartupNext]_vars

\* ----------------------------------------- Glicko2BGScript: the pool gate
NGatePlayers == 2
GatePlayers == 1 .. NGatePlayers
Queues == {1, 2}
PoolKeys == {<<q, 0>> : q \in Queues}

\* A default-constructed PoolTracker (what _poolTracking[key] inserts).
NewPool == [players |-> {}, lastUpdateTime |-> 0]

\* PoolTracker::AddGroup: insert the group's players, stamp the time.
AddGroupReplacing(pool, group, t) ==
    [players |-> group.Players, lastUpdateTime |-> t]
AddGroup(pool, group, t) ==
    [players |-> pool.players \cup group.Players, lastUpdateTime |-> t]

\* PoolTracker::Clear
ClearKeepingPlayers(pool) == [players |-> pool.players, lastUpdateTime |-> 0]
Clear(pool) == [players |-> {}, lastUpdateTime |-> 0]

\* PoolTracker::IsStale(now, maxAgeSeconds = 300)
IsStaleAtWindow(pool, t) == (t - pool.lastUpdateTime) >= MaxAgeSeconds
IsStale(pool, t) == (t - pool.lastUpdateTime) > MaxAgeSeconds

\* Glicko2BGScript::CleanupStalePools: erase every stale entry.
CleanupStalePools(pools, t) ==
    [k \in {x \in DOMAIN pools : ~IsStale(pools[x], t)} |-> pools[k]]

\* _poolTracking[key]: the entry, default-inserted when absent.
WithPool(pools, key) ==
    [k \in DOMAIN pools \cup {key} |-> IF k \in DOMAIN pools THEN pools[k] ELSE NewPool]

\* Glicko2BGScript::IsArenaGroup: the group's BgTypeId is an arena type.
IsArenaGroup(group) == group.isArena

\* The bracket chosen from group->ArenaType (2v2 when it is none of 2, 3, 5).
BracketOfArenaType(arenaType) ==
    CASE arenaType = 3 -> SLOT_3v3
      [] arenaType = 5 -> SLOT_5v5
      [] OTHER -> SLOT_2v2

\* An average as an exact fraction.
Frac(n, d) == [num |-> n, den |-> d]

\* CalculateGroupAverageMMR / CalculateAverageMMR over the battleground store.
\* Over no players the group average is the configured initial rating and the
\* pool (team) average the hard-coded 1500.
BGRatingOf == [p \in Players |-> BGGetRating(bgRatings, p).rating]
CalculateGroupAverageMMR(players) ==
    IF players = {} THEN Frac(cfg.InitialRating, 1)
    ELSE Frac(SumOver(BGRatingOf, players), Cardinality(players))
CalculateAverageMMR(players) ==
    IF players = {} THEN Frac(EmptyTeamMMR, 1)
    ELSE Frac(SumOver(BGRatingOf, players), Cardinality(players))

\* CalculateGroupArenaRating / CalculatePoolArenaRating over the arena store.
ArenaRatingOf(bracket) == [p \in Players |-> ArenaGetRating(arenaRatings, p, bracket).rating]
CalculateArenaRating(players, bracket) ==
    IF players = {} THEN Frac(initialRating, 1)
    ELSE Frac(SumOver(ArenaRatingOf(bracket), players), Cardinality(players))

\* queueTimeSec = queueTimeMS / 1000 (unsigned division)
QueueTimeSec(queueTimeMS) == queueTimeMS \div 1000

\* mmrDiff = |groupAvg - poolAvg|; allowed = mmrDiff <= currentRange
WithinRange(groupAvg, poolAvg, currentRange) ==
    Abs(groupAvg.num * poolAvg.den - poolAvg.num * groupAvg.den)
        <= currentRange * groupAvg.den * poolAvg.den

\* What one call leaves behind: the pools and the record of the call (its
\* arguments, the key's pool as the call found it, and what it decided).
GateOutcome(key, group, poolPlayerCount, reached, result, pools, seen, range) ==
    /\ poolTracking' = pools
    /\ lastGate' = [op |-> "CanAdd", key |-> key, group |-> group,
                    poolPlayerCount |-> poolPlayerCount, reached |-> reached,
                    result |-> result, poolSeen |-> seen, range |-> range,
                    before |-> WithPool(poolTracking, key)[key]]

\* Glicko2BGScript::CanAddGroupToMatchingPool(queue, group, poolPlayerCount, bg,
\* bracketId), key = <<queue, bracketId>>.  poolSeen is the membership the pool
\* average was taken over, range the tolerance used (-1 when none was).
CanAddGroupToMatchingPool(key, group, poolPlayerCount) ==
    /\ UNCHANGED <<cfg, dbVars, thrVars, mgrVars, storeVars, now, matchVars, rangeCalls, lastStore, lastSettle>>
    /\ IF ~cfg.Enabled \/ group.Players = {}
       THEN GateOutcome(key, group, poolPlayerCount, FALSE, TRUE, poolTracking, {}, -1)
       ELSE
         LET pools == WithPool(CleanupStalePools(poolTracking, now), key)
             pool == pools[key]
             queueTimeSec == QueueTimeSec(group.queueTimeMS)
         IN
         IF IsArenaGroup(group)
         THEN
           IF ~cfg.ArenaEnabled
           THEN GateOutcome(key, group, poolPlayerCount, FALSE, TRUE, pools, {}, -1)
           ELSE
             LET bracket == BracketOfArenaType(group.ArenaType) IN
             IF poolPlayerCount = 0
             THEN GateOutcome(key, group, poolPlayerCount, TRUE, TRUE,
                      [pools EXCEPT ![key] = AddGroup(Clear(pool), group, now)], {}, -1)
             ELSE
               \E si \in SettingsRead(bracket), sm \in SettingsRead(bracket),
                  sr \in SettingsRead(bracket) :
                 LET groupAvgMMR == CalculateArenaRating(group.Players, bracket)
                     poolAvgMMR == CalculateArenaRating(pool.players, bracket)
                     currentRange ==
                         RelaxedRange(Triplet(si.initialRange, sm.maxRange,
                                              sr.relaxationRate), queueTimeSec)
                     allowed == WithinRange(groupAvgMMR, poolAvgMMR, currentRange)
                 IN GateOutcome(key, group, poolPlayerCount, TRUE, allowed,
                        IF allowed
                        THEN [pools EXCEPT ![key] = AddGroup(pool, group, now)]
                        ELSE pools,
                        pool.players, currentRange)
         ELSE
           IF poolPlayerCount = 0
           THEN GateOutcome(key, group, poolPlayerCount, TRUE, TRUE,
                    [pools EXCEPT ![key] = AddGroup(Clear(pool), group, now)], {}, -1)
           ELSE
             LET groupAvgMMR == CalculateGroupAverageMMR(group.Players)
                 poolAvgMMR == CalculateAverageMMR(pool.players)
                 currentRange == RelaxedRange(cfg.BG, queueTimeSec)
                 allowed == WithinRange(groupAvgMMR, poolAvgMMR, currentRange)
             IN GateOutcome(key, group, poolPlayerCount, TRUE, allowed,
                    IF allowed
                    THEN [pools EXCEPT ![key] = AddGroup(pool, group, now)]
                    ELSE pools,
                    pool.players, currentRange)

\* time(nullptr) moves on: by a whole staleness window, then by one second, and
\* so on, so that a pool is seen exactly MaxAgeSeconds old and one second older.
ClockStep == IF (now - StartTime) % (MaxAgeSeconds + 1) = 0 THEN MaxAgeSeconds ELSE 1
Tick ==
    /\ now + ClockStep <= StartTime + MaxElapsed
    /\ now' = now + ClockStep
    /\ UNCHANGED <<cfg, dbVars, thrVars, mgrVars, storeVars, poolTracking, matchVars, histVars>>

\* ------------------------------------------- specification: the pool gate
\* The candidate groups: their members, whether the group queues for an arena,
\* its ArenaType, and how long it has queued (GameTimeMS - JoinTime, in ms).
GateQueueTimesMS == {0, 30500, 100000}
\* The host keeps one queue per battleground type and arena type: queue 1 is a
\* battleground queue, queue 2 the arena queue.
GateGroups(queue) ==
    IF queue = 1
    THEN [ Players : SUBSET GatePlayers, isArena : {FALSE}, ArenaType : {0},
           queueTimeMS : GateQueueTimesMS ]
    ELSE [ Players : SUBSET GatePlayers, isArena : {TRUE}, ArenaType : {2, 3},
           queueTimeMS : GateQueueTimesMS ]

GateConfigs == {BaseConf, [BaseConf EXCEPT !.Enabled = FALSE],
                [BaseConf EXCEPT !.ArenaEnabled = FALSE]}

\* Ratings on record when the queue opens: player 1 has none (the defaults
\* apply), player 2 is rated in the battleground store and in two brackets.
GateBGRatings == [p \in {2} |-> BattlegroundRatingData(2500, 200, 6, 4, 4, 0, TRUE)]
GateArenaRatings ==
    [k \in {<<2, SLOT_2v2>>, <<2, SLOT_3v3>>} |->
        IF k[2] = SLOT_2v2
        THEN ArenaRatingData(2100, 200, 6, 4, 4, 0, SLOT_2v2, TRUE)
        ELSE ArenaRatingData(2620, 200, 6, 4, 4, 0, SLOT_3v3, TRUE)]

GateInit ==
    /\ cfg \in GateConfigs
    /\ enabled = TRUE
    /\ initialRating = 1500
    /\ initialRD = 350
    /\ initialVolatility = 6
    /\ bracketSettings = [i \in 0 .. (MAX_SLOTS - 1) |-> DefaultBracketSettings]
    /\ configLoaded = FALSE
    /\ scriptMgr = RunningServer
    /\ arenaRatings = GateArenaRatings
    /\ bgRatings = GateBGRatings
    /\ arenaDB = NoRatings
    /\ bgDB = NoRatings
    /\ storeMutex = Unlocked
    /\ playerMutex = Unlocked
    /\ poolMutex = NoOwner
    /\ matchMutex = NoOwner
    /\ thr = [t \in Threads |-> IdleThread]
    /\ poolTracking = NoRatings
    /\ now = StartTime
    /\ activeMatches = NoRatings
    /\ hostBG = NoRatings
    /\ matchCount = 0
    /\ rangeCalls = <<>>
    /\ lastStore = NoStoreOp
    /\ lastGate = NoGate
    /\ lastSettle = NoSettle

GateNext ==
    \/ Tick
    \/ \E key \in PoolKeys, poolPlayerCount \in {0, 1} :
          \E group \in GateGroups(key[1]) :
             CanAddGroupToMatchingPool(key, group, poolPlayerCount)

SpecGate == GateInit /\ [][GateNext]_vars

\* ----------------- specification: the pool gate's locks, thread by thread
\* CanAddGroupToMatchingPool step by step: std::lock_guard lock(_poolMutex),
\* the store reads of the two averages (each GetRating holds its store's
\* shared lock while it runs), the decision, the return that unlocks.
GateLockGroups(queue) ==
    {g \in GateGroups(queue) : g.Players # {} /\ g.queueTimeMS = 0 /\ g.ArenaType # 2}

GateThread(pc, key, group, poolPlayerCount, todo, groupSum, poolSum) ==
    [pc |-> pc, key |-> key, group |-> group, poolPlayerCount |-> poolPlayerCount,
     todo |-> todo, groupSum |-> groupSum, poolSum |-> poolSum]

gateLockFrame ==
    <<cfg, dbVars, mgrVars, storeVars, matchMutex, now, matchVars, rangeCalls, lastStore,
      lastSettle>>

\* The call passes its early returns (Glicko2.Enabled, a non-empty group) and
\* reaches the lock_guard.
CanAddGroupEnter(t, key, group, poolPlayerCount) ==
    /\ thr[t].pc = "idle"
    /\ cfg.Enabled
    /\ group.Players # {}
    /\ thr' = [thr EXCEPT ![t] =
                  GateThread("gate_wait", key, group, poolPlayerCount, {}, 0, 0)]
    /\ UNCHANGED <<gateLockFrame, storeMutex, playerMutex, poolMutex, poolTracking,
                   lastGate>>

\* std::lock_guard lock(_poolMutex); CleanupStalePools(); _poolTracking[key];
\* the returns that need no average (arena rating disabled, first group of an
\* empty pool) follow at once and unlock.
CanAddGroupLock(t) ==
    /\ thr[t].pc = "gate_wait"
    /\ poolMutex = NoOwner
    /\ LET me == thr[t]
           pools == WithPool(CleanupStalePools(poolTracking, now), me.key)
           pool == pools[me.key]
       IN IF IsArenaGroup(me.group) /\ ~cfg.ArenaEnabled
          THEN /\ GateOutcome(me.key, me.group, me.poolPlayerCount, FALSE, TRUE, pools,
                              {}, -1)
               /\ thr' = [thr EXCEPT ![t] = IdleThread]
               /\ UNCHANGED poolMutex
          ELSE IF me.poolPlayerCount = 0
          THEN /\ GateOutcome(me.key, me.group, me.poolPlayerCount, TRUE, TRUE,
                      [pools EXCEPT ![me.key] = AddGroup(Clear(pool), me.group, now)],
                      {}, -1)
               /\ thr' = [thr EXCEPT ![t] = IdleThread]
               /\ UNCHANGED poolMutex
          ELSE /\ poolTracking' = pools
               /\ poolMutex' = t
               /\ thr' = [thr EXCEPT ![t].pc = "group_read", ![t].todo = me.group.Players]
               /\ UNCHANGED lastGate
    /\ UNCHANGED <<gateLockFrame, storeMutex, playerMutex>>

\* One GetRating of an average begins: the store's shared lock is taken
\* (ArenaRatingStorage for an arena group, Glicko2PlayerStorage otherwise).
AverageGetRatingBegin(t) ==
    /\ thr[t].pc \in {"group_read", "pool_read"}
    /\ thr[t].todo # {}
    /\ IF IsArenaGroup(thr[t].group)
       THEN /\ CanLockShared(storeMutex)
            /\ storeMutex' = [storeMutex EXCEPT !.readers = @ \cup {t}]
            /\ UNCHANGED playerMutex
       ELSE /\ CanLockShared(playerMutex)
            /\ playerMutex' = [playerMutex EXCEPT !.readers = @ \cup {t}]
            /\ UNCHANGED storeMutex
    /\ thr' = [thr EXCEPT ![t].pc = IF @ = "group_read" THEN "group_get" ELSE "pool_get"]
    /\ UNCHANGED <<gateLockFrame, poolMutex, poolTracking, lastGate>>

\* That GetRating returns: the rating is added to the sum, the shared lock is
\* released; after the group's last member the pool's players follow.
AverageGetRatingEnd(t) ==
    /\ thr[t].pc \in {"group_get", "pool_get"}
    /\ LET me == thr[t]
           g == CHOOSE x \in me.todo : TRUE
           rating == IF IsArenaGroup(me.group)
                     THEN ArenaGetRating(arenaRatings, g,
                                         BracketOfArenaType(me.group.ArenaType)).rating
                     ELSE BGGetRating(bgRatings, g).rating
           rest == me.todo \ {g}
           poolPlayers == poolTracking[me.key].players
       IN thr' = [thr EXCEPT ![t] =
                     IF me.pc = "group_get"
                     THEN IF rest # {}
                          THEN GateThread("group_read", me.key, me.group,
                                          me.poolPlayerCount, rest,
                                          me.groupSum + rating, 0)
                          ELSE GateThread(IF poolPlayers = {} THEN "decide" ELSE "pool_read",
                                          me.key, me.group, me.poolPlayerCount,
                                          poolPlayers, me.groupSum + rating, 0)
                     ELSE GateThread(IF rest = {} THEN "decide" ELSE "pool_read",
                                     me.key, me.group, me.poolPlayerCount, rest,
                                     me.groupSum, me.poolSum + rating)]
    /\ storeMutex' = [storeMutex EXCEPT !.readers = @ \ {t}]
    /\ playerMutex' = [playerMutex EXCEPT !.readers = @ \ {t}]
    /\ UNCHANGED <<gateLockFrame, poolMutex, poolTracking, lastGate>>

\* The tolerance check, pool.AddGroup when allowed, and the return, which
\* releases _poolMutex.
CanAddGroupDecide(t) ==
    /\ thr[t].pc = "decide"
    /\ LET me == thr[t]
           pool == poolTracking[me.key]
           groupAvgMMR == Frac(me.groupSum, Cardinality(me.group.Players))
           poolAvgMMR ==
               IF pool.players # {} THEN Frac(me.poolSum, Cardinality(pool.players))
               ELSE IF IsArenaGroup(me.group) THEN Frac(initialRating, 1)
               ELSE Frac(EmptyTeamMMR, 1)
           queueTimeSec == QueueTimeSec(me.group.queueTimeMS)
           reads == IF IsArenaGroup(me.group)
                    THEN SettingsRead(BracketOfArenaType(me.group.ArenaType))
                    ELSE {cfg.BG}
       IN \E si \in reads, sm \in reads, sr \in reads :
             LET currentRange ==
                     RelaxedRange(Triplet(si.initialRange, sm.maxRange, sr.relaxationRate),
                                  queueTimeSec)
                 allowed == WithinRange(groupAvgMMR, poolAvgMMR, currentRange)
             IN GateOutcome(me.key, me.group, me.poolPlayerCount, TRUE, allowed,
                    IF allowed
                    THEN [poolTracking EXCEPT ![me.key] = AddGroup(pool, me.group, now)]
                    ELSE poolTracking,
                    pool.players, currentRange)
    /\ poolMutex' = NoOwner
    /\ thr' = [thr EXCEPT ![t] = IdleThread]
    /\ UNCHANGED <<gateLockFrame, storeMutex, playerMutex>>

GateLockInit == GateInit /\ cfg \in {BaseConf, [BaseConf EXCEPT !.ArenaEnabled = FALSE]}

GateLockNext ==
    \E t \in Threads :
       \/ \E key \in PoolKeys, poolPlayerCount \in {0, 1} :
             \E group \in GateLockGroups(key[1]) :
                CanAddGroupEnter(t, key, group, poolPlayerCount)
       \/ CanAddGroupLock(t)
       \/ AverageGetRatingBegin(t)
       \/ AverageGetRatingEnd(t)
       \/ CanAddGroupDecide(t)

SpecGateLock == GateLockInit /\ [][GateLockNext]_vars

\* ------------------------------------------------------- Glicko2System
\* Glicko2System::UpdateRating(rating, {opponent}) for one opponent, in whole
\* rating points: the expected score (in tenths) follows the rating difference,
\* the swing grows with the rating deviation, the deviation shrinks to a floor,
\* the volatility stays within its band.  score is 1 (win) or 0 (loss).
RDFloor == 30
ExpectedTenths(rating, oppRating) ==
    Max(1, Min(9, 5 + ((rating - oppRating) \div 200)))
Glicko2UpdateRatingKeepingRating(rating, rd, vol, oppRating, oppRD, score) ==
    [ rating |-> rating,
      ratingDeviation |-> Max(RDFloor, rd - Max(1, rd \div 10)),
      volatility |-> vol ]
Glicko2UpdateRating(rating, rd, vol, oppRating, oppRD, score) ==
    [ rating |-> rating + ((rd \div 4) * (10 * score - ExpectedTenths(rating, oppRating))) \div 10,
      ratingDeviation |-> Max(RDFloor, rd - Max(1, rd \div 10)),
      volatility |-> vol ]

\* The integer square root, by bisection.
RECURSIVE SqrtBetween(_, _, _)
SqrtBetween(n, lo, hi) ==
    IF lo = hi THEN lo
    ELSE LET mid == (lo + hi + 1) \div 2
         IN IF mid * mid <= n THEN SqrtBetween(n, mid, hi)
            ELSE SqrtBetween(n, lo, mid - 1)
ISqrt(n) == SqrtBetween(n, 0, 46340)

\* The inactivity path (no opponents): new RD = sqrt(RD^2 + volatility^2) on
\* the internal scale (RD / 173.7178).  In hundredths of a rating point, the
\* volatility v (hundredths) is worth 173.7178 * v hundredths of a point.
Glicko2InactiveRDUnchanged(rd, vol) == 100 * rd
Glicko2InactiveRD(rd, vol) ==
    ISqrt((100 * rd) * (100 * rd) + ((1737 * vol) \div 10) * ((1737 * vol) \div 10))

\* Glicko2System::UpdateRating(rating, opponents) for no or one opponent; the
\* new deviation is given in hundredths of a point.
UpdateRating(rating, rd, vol, opponents) ==
    IF opponents = <<>>
    THEN [ rating |-> rating,
           ratingDeviationCenti |-> Glicko2InactiveRD(rd, vol),
           volatility |-> vol ]
    ELSE LET new == Glicko2UpdateRating(rating, rd, vol, opponents[1].rating,
                                        opponents[1].ratingDeviation,
                                        opponents[1].score)
         IN [ rating |-> new.rating,
              ratingDeviationCenti |-> 100 * new.ratingDeviation,
              volatility |-> new.volatility ]

\* ------------------------------------- specification: the rating engine
\* The ratings the engine is asked about: RD and volatility strictly positive.
EngineRatings == {1200, 1500, 1800}
EngineRDs == {30, 200, 350}
EngineVolatilities == {3, 6, 9}
EngineOpponents ==
    { <<>> } \cup
    { <<[rating |-> r, ratingDeviation |-> d, score |-> sc]>> :
         r \in EngineRatings \cup {1300, 1700}, d \in {200, 350}, sc \in {0, 1} }

\* Glicko2System::UpdateRating(rating, opponents), logged.
UpdateRatingCall(rating, rd, vol, opponents) ==
    /\ lastStore' = [op |-> "UpdateRating", guid |-> 0, bracket |-> 0,
                     rating |-> rating, ratingDeviation |-> rd, volatility |-> vol,
                     opponents |-> opponents,
                     result |-> UpdateRating(rating, rd, vol, opponents)]
    /\ UNCHANGED <<cfg, dbVars, thrVars, mgrVars, storeVars, gateVars, matchVars,
                   rangeCalls, lastGate, lastSettle>>

EngineInit == InitWith(BaseConf)

EngineNext ==
    \E rating \in EngineRatings, rd \in EngineRDs, vol \in EngineVolatilities :
       \E opponents \in EngineOpponents : UpdateRatingCall(rating, rd, vol, opponents)

SpecEngine == EngineInit /\ [][EngineNext]_vars

\* ------------------------------------------- ArenaMMRMgr: the settlement
\* ArenaMMRMgr::CalculateAverageRating over a given store content.
ArenaAverageRating(ratings, guids, bracket) ==
    IF guids = {} THEN initialRating
    ELSE SumOver([p \in Players |-> ArenaGetRating(ratings, p, bracket).rating], guids)
             \div Cardinality(guids)
ArenaAverageRD(ratings, guids, bracket) ==
    SumOver([p \in Players |-> ArenaGetRating(ratings, p, bracket).ratingDeviation], guids)
        \div Cardinality(guids)

\* data.matchesPlayed++; if (won) data.wins++; else data.losses++
CountMatchDroppingLoss(data, won) ==
    [data EXCEPT !.matchesPlayed = @ + 1,
                 !.wins = IF won THEN @ + 1 ELSE @]
CountMatch(data, won) ==
    [data EXCEPT !.matchesPlayed = @ + 1,
                 !.wins = IF won THEN @ + 1 ELSE @,
                 !.losses = IF won THEN @ ELSE @ + 1]

\* ArenaMMRMgr::UpdatePlayerRating: the store after rating one player against
\* the average of `opponents` as the store holds them now.
UpdatedPlayerData(playerData, opponentAvgRating, opponentAvgRD, won) ==
    LET new == Glicko2UpdateRating(playerData.rating, playerData.ratingDeviation,
                   playerData.volatility, opponentAvgRating, opponentAvgRD,
                   IF won THEN 1 ELSE 0)
        rated == [playerData EXCEPT !.rating = new.rating,
                                    !.ratingDeviation = new.ratingDeviation,
                                    !.volatility = new.volatility]
    IN CountMatch(rated, won)

UpdatePlayerRating(ratings, guid, bracket, won, opponents) ==
    IF ~enabled \/ opponents = {} THEN ratings
    ELSE ArenaSetRating(ratings, guid, bracket,
             UpdatedPlayerData(ArenaGetRating(ratings, guid, bracket),
                               ArenaAverageRating(ratings, opponents, bracket),
                               ArenaAverageRD(ratings, opponents, bracket), won))

\* for (guid : todo) UpdatePlayerRating(guid, bracket, won, opponents)
RECURSIVE UpdateEach(_, _, _, _, _)
UpdateEach(ratings, todo, bracket, won, opponents) ==
    IF todo = {} THEN ratings
    ELSE LET g == CHOOSE x \in todo : TRUE
         IN UpdateEach(UpdatePlayerRating(ratings, g, bracket, won, opponents),
                       todo \ {g}, bracket, won, opponents)

\* ArenaMMRMgr::UpdateArenaMatch: nothing when disabled or a side is empty, else
\* every winner, then every loser.
UpdateArenaMatch(ratings, winnerGuids, loserGuids, bracket) ==
    IF ~enabled \/ winnerGuids = {} \/ loserGuids = {} THEN ratings
    ELSE UpdateEach(UpdateEach(ratings, winnerGuids, bracket, TRUE, loserGuids),
                    loserGuids, bracket, FALSE, winnerGuids)

\* ------------------------------------ Glicko2BGScript: the settlement
\* Glicko2BGScript::CalculateAverageRD
CalculateAverageRD(players) ==
    IF players = {} THEN EmptyTeamRD
    ELSE SumOver([p \in Players |-> BGGetRating(bgRatings, p).ratingDeviation], players)
             \div Cardinality(players)

\* Glicko2BGScript::UpdateTeamRatings over a given store content.
RECURSIVE UpdateTeamRatings(_, _, _, _, _)
UpdateTeamRatings(ratings, players, opponentAvgMMR, opponentAvgRD, won) ==
    IF players = {} THEN ratings
    ELSE LET guid == CHOOSE x \in players : TRUE
             data == BGGetRating(ratings, guid)
             new == Glicko2UpdateRating(data.rating, data.ratingDeviation, data.volatility,
                        opponentAvgMMR, opponentAvgRD, IF won THEN 1 ELSE 0)
             rated == [data EXCEPT !.rating = new.rating,
                                   !.ratingDeviation = new.ratingDeviation,
                                   !.volatility = new.volatility]
         IN UpdateTeamRatings(BGSetRating(ratings, guid, CountMatch(rated, won)),
                              players \ {guid}, opponentAvgMMR, opponentAvgRD, won)

\* Glicko2BGScript::ProcessMatchRatings: the battleground store afterwards.  A
\* winnerTeam of 0 is taken for a draw; the team averages are read before either
\* team is updated.
ProcessMatchRatings(match) ==
    IF match.winnerTeam = 0 THEN bgRatings
    ELSE LET alliance == CalculateAverageMMR(match.alliancePlayers)
             horde == CalculateAverageMMR(match.hordePlayers)
             allianceAvgRD == CalculateAverageRD(match.alliancePlayers)
             hordeAvgRD == CalculateAverageRD(match.hordePlayers)
         IN UpdateTeamRatings(
                UpdateTeamRatings(bgRatings, match.alliancePlayers,
                    horde.num \div horde.den, hordeAvgRD,
                    match.winnerTeam = TEAM_ALLIANCE),
                match.hordePlayers, alliance.num \div alliance.den, allianceAvgRD,
                match.winnerTeam = TEAM_HORDE)

\* --------------------------------- Glicko2BGScript: the match trackers
\* The host's battleground instances (GetInstanceID).
Instances == {1}
NoTeam == -1
NoWinner == -1

\* A battleground of the host: whether it is an arena and of which type
\* (isArena, GetArenaType), who is in it on which team (GetPlayers,
\* GetBgTeamId), the winner once it has ended, and who was rewarded.
NewHostBG(arena, arenaType) ==
    [isArena |-> arena, arenaType |-> arenaType,
     team |-> [p \in Players |-> NoTeam], winner |-> NoWinner, rewarded |-> {}]
HostKinds == {NewHostBG(FALSE, 0), NewHostBG(TRUE, 2), NewHostBG(TRUE, 3)}
HostPlayers(bg) == {p \in Players : bg.team[p] # NoTeam}

\* A default-constructed MatchTracker.
NewMatch == [alliancePlayers |-> {}, hordePlayers |-> {}, winnerTeam |-> 0,
             processed |-> FALSE, startTime |-> 0]

SetMatch(matches, inst, match) ==
    [i \in DOMAIN matches \cup {inst} |-> IF i = inst THEN match ELSE matches[i]]
EraseMatch(matches, inst) == [i \in DOMAIN matches \ {inst} |-> matches[i]]

\* The host adds a player to a running battleground and fires
\* Glicko2BGScript::OnBattlegroundAddPlayer.
OnBattlegroundAddPlayer(inst, player, team) ==
    /\ hostBG[inst].winner = NoWinner
    /\ hostBG[inst].team[player] = NoTeam
    /\ hostBG' = [hostBG EXCEPT ![inst].team[player] = team]
    /\ IF ~cfg.Enabled
       THEN UNCHANGED activeMatches
       ELSE LET match == IF inst \in DOMAIN activeMatches
                         THEN activeMatches[inst] ELSE NewMatch
                joined == IF team = TEAM_ALLIANCE
                          THEN [match EXCEPT !.alliancePlayers = @ \cup {player}]
                          ELSE [match EXCEPT !.hordePlayers = @ \cup {player}]
            IN activeMatches' = SetMatch(activeMatches, inst,
                   IF joined.startTime = 0
                   THEN [joined EXCEPT !.startTime = now] ELSE joined)
    /\ UNCHANGED <<cfg, dbVars, thrVars, mgrVars, storeVars, gateVars, matchCount, histVars>>

\* The sides of a settled battleground, as the winner's team and the other.
TrackerWinners(match, winner) ==
    CASE winner = TEAM_ALLIANCE -> match.alliancePlayers
      [] winner = TEAM_HORDE -> match.hordePlayers
      [] OTHER -> {}
TrackerLosers(match, winner) ==
    CASE winner = TEAM_ALLIANCE -> match.hordePlayers
      [] winner = TEAM_HORDE -> match.alliancePlayers
      [] OTHER -> {}

\* if (!match.processed) { match.winnerTeam = winnerTeamId; match.processed = true; ...
MarkProcessed(found, winner) ==
    [found EXCEPT !.winnerTeam = winner, !.processed = TRUE]

\* The arena branch of OnBattlegroundEndReward, while fewer than `limit`
\* settlements have run.
EndRewardArena(inst, winner, limit) ==
    IF ~cfg.ArenaEnabled \/ inst \in DOMAIN activeMatches
    THEN UNCHANGED <<activeMatches, storeVars, matchCount, lastSettle>>
    ELSE
      LET bg == hostBG[inst]
          bracket == BracketOfArenaType(bg.arenaType)
          winnerGuids == {q \in HostPlayers(bg) : bg.team[q] = winner}
          loserGuids == HostPlayers(bg) \ winnerGuids
      IN /\ activeMatches' = SetMatch(activeMatches, inst, [NewMatch EXCEPT !.processed = TRUE])
         /\ UNCHANGED bgRatings
         /\ IF winnerGuids # {} /\ loserGuids # {}
            THEN /\ matchCount < limit
                 /\ arenaRatings' = UpdateArenaMatch(arenaRatings, winnerGuids, loserGuids, bracket)
                 /\ matchCount' = matchCount + 1
                 /\ lastSettle' = [op |-> "arena", winners |-> winnerGuids,
                                   losers |-> loserGuids, draw |-> FALSE, bracket |-> bracket]
            ELSE UNCHANGED <<arenaRatings, matchCount, lastSettle>>

\* The battleground branch of OnBattlegroundEndReward, while fewer than `limit`
\* settlements have run.
EndRewardBattleground(inst, player, winner, limit) ==
    LET bg == hostBG[inst]
        found == IF inst \in DOMAIN activeMatches
                 THEN activeMatches[inst]
                 ELSE [NewMatch EXCEPT
                         !.winnerTeam = winner,
                         !.alliancePlayers = {q \in Players : bg.team[q] = TEAM_ALLIANCE},
                         !.hordePlayers = {q \in Players : bg.team[q] = TEAM_HORDE}]
        match == IF found.processed THEN found ELSE MarkProcessed(found, winner)
        left == [match EXCEPT !.alliancePlayers = @ \ {player},
                              !.hordePlayers = @ \ {player}]
    IN /\ UNCHANGED arenaRatings
       /\ IF found.processed
          THEN UNCHANGED <<bgRatings, matchCount, lastSettle>>
          ELSE /\ matchCount < limit
               /\ bgRatings' = ProcessMatchRatings(match)
               /\ matchCount' = matchCount + 1
               /\ lastSettle' = [op |-> "bg",
                                 winners |-> TrackerWinners(match, winner),
                                 losers |-> TrackerLosers(match, winner),
                                 draw |-> winner = TEAM_NEUTRAL, bracket |-> 0]
       /\ activeMatches' =
            IF left.alliancePlayers = {} /\ left.hordePlayers = {}
            THEN EraseMatch(activeMatches, inst)
            ELSE SetMatch(activeMatches, inst, left)

\* The host ends a battleground and fires Glicko2BGScript::OnBattlegroundEndReward
\* once for each player in it, with the same winner.
EndRewardEvent(inst, player, winner, limit) ==
    /\ hostBG[inst].team[player] # NoTeam
    /\ player \notin hostBG[inst].rewarded
    /\ hostBG[inst].winner \in {NoWinner, winner}
    /\ hostBG' = [hostBG EXCEPT ![inst].winner = winner,
                                ![inst].rewarded = @ \cup {player}]
    /\ IF ~cfg.Enabled
       THEN UNCHANGED <<activeMatches, storeVars, matchCount, lastSettle>>
       ELSE IF hostBG[inst].isArena
            THEN EndRewardArena(inst, winner, limit)
            ELSE EndRewardBattleground(inst, player, winner, limit)
    /\ UNCHANGED <<cfg, dbVars, thrVars, mgrVars, gateVars, rangeCalls, lastStore, lastGate>>

OnBattlegroundEndReward(inst, player, winner) ==
    EndRewardEvent(inst, player, winner, MaxMatches)

\* A direct call of ArenaMMRMgr::UpdateArenaMatch(bg, winners, losers, bracket),
\* while fewer than `limit` settlements have run.
ArenaMatchCall(winnerGuids, loserGuids, bracket, limit) ==
    /\ matchCount < limit
    /\ arenaRatings' = UpdateArenaMatch(arenaRatings, winnerGuids, loserGuids, bracket)
    /\ matchCount' = matchCount + 1
    /\ lastSettle' = [op |-> "arena", winners |-> winnerGuids, losers |-> loserGuids,
                      draw |-> FALSE, bracket |-> bracket]
    /\ UNCHANGED <<cfg, dbVars, thrVars, mgrVars, bgRatings, gateVars, activeMatches, hostBG,
                   rangeCalls, lastStore, lastGate>>

CallUpdateArenaMatch(winnerGuids, loserGuids, bracket) ==
    ArenaMatchCall(winnerGuids, loserGuids, bracket, MaxMatches)

\* ------------------------------------------- specification: settlement
SettleConfigs == {BaseConf, [BaseConf EXCEPT !.ArenaEnabled = FALSE]}

SettleInit ==
    /\ cfg \in SettleConfigs
    /\ enabled = TRUE
    /\ initialRating = 1500
    /\ initialRD = 350
    /\ initialVolatility = 6
    /\ bracketSettings = [i \in 0 .. (MAX_SLOTS - 1) |-> DefaultBracketSettings]
    /\ configLoaded = FALSE
    /\ scriptMgr = RunningServer
    /\ arenaRatings = NoRatings
    /\ bgRatings = NoRatings
    /\ arenaDB = NoRatings
    /\ bgDB = NoRatings
    /\ storeMutex = Unlocked
    /\ playerMutex = Unlocked
    /\ poolMutex = NoOwner
    /\ matchMutex = NoOwner
    /\ thr = [t \in Threads |-> IdleThread]
    /\ poolTracking = NoRatings
    /\ now = StartTime
    /\ activeMatches = NoRatings
    /\ hostBG \in [Instances -> HostKinds]
    /\ matchCount = 0
    /\ rangeCalls = <<>>
    /\ lastStore = NoStoreOp
    /\ lastGate = NoGate
    /\ lastSettle = NoSettle

\* The sides a direct caller passes: disjoint sets of players, possibly empty.
Sides == {ws \in (SUBSET Players) \X (SUBSET Players) : ws[1] \cap ws[2] = {}}

SettleNext ==
    \/ \E inst \in Instances, p \in Players, team \in {TEAM_ALLIANCE, TEAM_HORDE} :
          OnBattlegroundAddPlayer(inst, p, team)
    \/ \E inst \in Instances, p \in Players,
          winner \in {TEAM_ALLIANCE, TEAM_HORDE, TEAM_NEUTRAL} :
          OnBattlegroundEndReward(inst, p, winner)
    \/ \E ws \in Sides, bracket \in {SLOT_2v2, SLOT_3v3} :
          CallUpdateArenaMatch(ws[1], ws[2], bracket)

SpecSettle == SettleInit /\ [][SettleNext]_vars

\* ------------------------ specification: matches on a reused instance
MaxTrackerMatches == 2
TrackerPlayers == {1, 2}

\* Glicko2BGScript::OnBattlegroundEndReward in a run of several matches.
TrackedEndReward(inst, player, winner) ==
    EndRewardEvent(inst, player, winner, MaxTrackerMatches)

\* The host destroys a finished battleground, every player of which was
\* rewarded, and creates the next one under the same instance id.  No hook of
\* the module fires.
HostReusesInstance(inst, kind) ==
    /\ hostBG[inst].winner # NoWinner
    /\ hostBG[inst].rewarded = HostPlayers(hostBG[inst])
    /\ matchCount < MaxTrackerMatches
    /\ hostBG' = [hostBG EXCEPT ![inst] = kind]
    /\ UNCHANGED <<cfg, dbVars, thrVars, mgrVars, storeVars, gateVars, activeMatches,
                   matchCount, histVars>>

TrackerInit == SettleInit /\ cfg = BaseConf

TrackerNext ==
    \/ \E inst \in Instances, p \in TrackerPlayers, team \in {TEAM_ALLIANCE, TEAM_HORDE} :
          OnBattlegroundAddPlayer(inst, p, team)
    \/ \E inst \in Instances, p \in TrackerPlayers,
          winner \in {TEAM_ALLIANCE, TEAM_HORDE, TEAM_NEUTRAL} :
          TrackedEndReward(inst, p, winner)
    \/ \E inst \in Instances, kind \in HostKinds : HostReusesInstance(inst, kind)

SpecTracker == TrackerInit /\ [][TrackerNext]_vars

\* ------------------------------- specification: a series of arena matches
\* Direct callers of the arena rating manager: the configuration is loaded (or
\* not) and a series of matches is settled, in any bracket, between any sides.
UpdateArenaMatchCall(winnerGuids, loserGuids, bracket) ==
    ArenaMatchCall(winnerGuids, loserGuids, bracket, MaxArenaMatches)

ArenaInit == \E c \in SettleConfigs : InitWith(c)

ArenaNext ==
    \/ LoadConfig
    \/ \E ws \in Sides, bracket \in {SLOT_2v2, SLOT_3v3} :
          UpdateArenaMatchCall(ws[1], ws[2], bracket)

SpecArena == ArenaInit /\ [][ArenaNext]_vars

\* ------------------ specification: initial ratings and empty averages
ManagerPlayers == {1, 2}
ManagerBrackets == {SLOT_2v2, SLOT_3v3}
ManagerConfigs == CacheConfigs \cup {[BaseConf EXCEPT !.ArenaEnabled = FALSE]}

\* A record of a player who has played.
PlayedRecord(b) == ArenaRatingData(1650, 120, 6, 5, 4, 1, b, TRUE)
PlayedBGRecord == BattlegroundRatingData(1650, 120, 6, 5, 4, 1, TRUE)

\* ArenaMMRMgr::InitializePlayerRating over a given store content.
InitializePlayerRatingResetting(ratings, guid, bracket) ==
    IF ~enabled THEN ratings
    ELSE ArenaSetRating(ratings, guid, bracket,
             ArenaRatingData(initialRating, initialRD, initialVolatility, 0, 0, 0,
                             bracket, TRUE))
InitializePlayerRating(ratings, guid, bracket) ==
    IF ~enabled THEN ratings
    ELSE IF ArenaHasRating(ratings, guid, bracket) THEN ratings
    ELSE ArenaSetRating(ratings, guid, bracket,
             ArenaRatingData(initialRating, initialRD, initialVolatility, 0, 0, 0,
                             bracket, TRUE))

managerFrame == <<cfg, dbVars, thrVars, mgrVars, gateVars, matchVars, rangeCalls,
                  lastGate, lastSettle>>

\* ArenaMMRMgr::InitializePlayerRating(playerGuid, bracket)
InitializePlayerRatingCall(guid, bracket) ==
    /\ arenaRatings' = InitializePlayerRating(arenaRatings, guid, bracket)
    /\ lastStore' = [op |-> "InitializePlayerRating", guid |-> guid, bracket |-> bracket]
    /\ UNCHANGED <<managerFrame, bgRatings>>

\* ArenaMMRMgr::CalculateAverageRating(playerGuids, bracket)
CalculateAverageRatingCall(players, bracket) ==
    /\ lastStore' = [op |-> "CalculateAverageRating", guid |-> 0, bracket |-> bracket,
                     players |-> players, loaded |-> configLoaded,
                     result |-> ArenaAverageRating(arenaRatings, players, bracket)]
    /\ UNCHANGED <<managerFrame, storeVars>>

\* Glicko2BGScript::CalculateAverageMMR(playerGuids)
CalculateAverageMMRCall(players) ==
    /\ lastStore' = [op |-> "CalculateAverageMMR", guid |-> 0, bracket |-> 0,
                     players |-> players, result |-> CalculateAverageMMR(players)]
    /\ UNCHANGED <<managerFrame, storeVars>>

\* Glicko2BGScript::CalculateGroupAverageMMR(group)
CalculateGroupAverageMMRCall(players) ==
    /\ lastStore' = [op |-> "CalculateGroupAverageMMR", guid |-> 0, bracket |-> 0,
                     players |-> players, result |-> CalculateGroupAverageMMR(players)]
    /\ UNCHANGED <<managerFrame, storeVars>>

\* Glicko2BGScript::CalculateGroupArenaRating / CalculatePoolArenaRating
CalculateArenaRatingCall(players, bracket) ==
    /\ lastStore' = [op |-> "CalculateArenaRating", guid |-> 0, bracket |-> bracket,
                     players |-> players, loaded |-> configLoaded,
                     result |-> CalculateArenaRating(players, bracket)]
    /\ UNCHANGED <<managerFrame, storeVars>>

ManagerInit == \E c \in ManagerConfigs : InitWith(c)

ManagerNext ==
    \/ LoadConfig
    \/ \E p \in ManagerPlayers, b \in ManagerBrackets : InitializePlayerRatingCall(p, b)
    \/ \E p \in ManagerPlayers, b \in ManagerBrackets : SetRating(p, b, PlayedRecord(b))
    \/ PlayerSetRating(1, PlayedBGRecord)
    \/ \E ps \in SUBSET ManagerPlayers, b \in ManagerBrackets :
          CalculateAverageRatingCall(ps, b)
    \/ \E ps \in SUBSET ManagerPlayers : CalculateAverageMMRCall(ps)
    \/ \E ps \in SUBSET ManagerPlayers : CalculateGroupAverageMMRCall(ps)
    \/ \E ps \in SUBSET ManagerPlayers, b \in ManagerBrackets :
          CalculateArenaRatingCall(ps, b)

SpecManager == ManagerInit /\ [][ManagerNext]_vars

\* ------------------------------------------------- the save operations
\* The columns SaveRating writes from a record.
RowOf(data) ==
    Row(data.rating, data.ratingDeviation, data.volatility, data.matchesPlayed,
        data.wins, data.losses)

\* INSERT ... ON DUPLICATE KEY UPDATE / REPLACE INTO: the key's row is `row`.
WriteRow(db, key, row) ==
    [k \in DOMAIN db \cup {key} |-> IF k = key THEN row ELSE db[k]]

\* ArenaRatingStorage::SaveRating(playerGuid, bracket, data)
ArenaSaveRatingData(db, guid, bracket, data) ==
    WriteRow(db, <<guid, bracket>>, RowOf(data))

\* ArenaRatingStorage::SaveRating(playerGuid, bracket): whatever GetRating
\* returns is written.
ArenaSaveRating(ratings, db, guid, bracket) ==
    ArenaSaveRatingData(db, guid, bracket, ArenaGetRating(ratings, guid, bracket))

\* ArenaRatingStorage::SaveAllRatings(playerGuid): for i = 0 .. MAX_SLOTS-1 the
\* entry {playerGuid, static_cast<ArenaBracket>(i)}, when cached and loaded, is
\* written.
RECURSIVE SaveSlots(_, _, _, _)
SaveSlots(ratings, db, guid, slots) ==
    IF slots = {} THEN db
    ELSE LET i == CHOOSE x \in slots : TRUE
             key == <<guid, i>>
         IN SaveSlots(ratings,
                      IF key \in DOMAIN ratings /\ ratings[key].loaded
                      THEN ArenaSaveRatingData(db, guid, i, ratings[key])
                      ELSE db,
                      guid, slots \ {i})
ArenaSaveAllRatings(ratings, db, guid) ==
    SaveSlots(ratings, db, guid, 0 .. (MAX_SLOTS - 1))

\* ArenaRatingStorage::SaveAll(): SaveAllRatings for every player that has a
\* loaded entry.
RECURSIVE SaveGuidsOf(_, _, _)
SaveGuidsOf(ratings, db, guids) ==
    IF guids = {} THEN db
    ELSE LET g == CHOOSE x \in guids : TRUE
         IN SaveGuidsOf(ratings, ArenaSaveAllRatings(ratings, db, g), guids \ {g})
ArenaSaveAll(ratings, db) ==
    SaveGuidsOf(ratings, db, {k[1] : k \in {j \in DOMAIN ratings : ratings[j].loaded}})

\* Glicko2PlayerStorage::SaveRating(playerGuid, data): nothing unless loaded.
BGSaveRatingData(db, guid, data) ==
    IF ~data.loaded THEN db ELSE WriteRow(db, guid, RowOf(data))

\* Glicko2PlayerStorage::SaveRating(playerGuid): a cached, loaded entry is
\* written.
BGSaveRating(ratings, db, guid) ==
    IF guid \notin DOMAIN ratings \/ ~ratings[guid].loaded THEN db
    ELSE BGSaveRatingData(db, guid, ratings[guid])

\* Glicko2PlayerStorage::SaveAll(): every loaded entry is written.
BGSaveAll(ratings, db) ==
    LET keys == {g \in DOMAIN ratings : ratings[g].loaded}
    IN [k \in DOMAIN db \cup keys |-> IF k \in keys THEN RowOf(ratings[k]) ELSE db[k]]

\* ------------------------ specification: caches and their saved rows
PersistGuids == {1, 2}
PersistKeys == {<<1, SLOT_2v2>>, <<1, SLOT_3v3>>, <<2, SLOT_3v3>>}

\* The records the callers store: one that counts as loaded, one that does not.
PersistArenaRecords(b) ==
    { ArenaRatingData(1650, 120, 6, 5, 4, 1, b, TRUE),
      ArenaRatingData(1650, 120, 6, 5, 4, 1, b, FALSE) }
PersistBGRecords ==
    { BattlegroundRatingData(1580, 150, 6, 3, 2, 1, TRUE),
      BattlegroundRatingData(1580, 150, 6, 3, 2, 1, FALSE) }

persistFrame == <<cfg, thrVars, mgrVars, storeVars, gateVars, matchVars, rangeCalls,
                  lastGate, lastSettle>>

\* ArenaRatingStorage::SaveRating(playerGuid, bracket)
SaveRating(guid, bracket) ==
    /\ arenaDB' = ArenaSaveRating(arenaRatings, arenaDB, guid, bracket)
    /\ lastStore' = [op |-> "SaveRating", guid |-> guid, bracket |-> bracket]
    /\ UNCHANGED <<persistFrame, bgDB>>

\* ArenaRatingStorage::SaveAllRatings(playerGuid)
SaveAllRatings(guid) ==
    /\ arenaDB' = ArenaSaveAllRatings(arenaRatings, arenaDB, guid)
    /\ lastStore' = [op |-> "SaveAllRatings", guid |-> guid, bracket |-> 0]
    /\ UNCHANGED <<persistFrame, bgDB>>

\* ArenaRatingStorage::SaveAll()
SaveAll ==
    /\ arenaDB' = ArenaSaveAll(arenaRatings, arenaDB)
    /\ lastStore' = [op |-> "SaveAll", guid |-> 0, bracket |-> 0]
    /\ UNCHANGED <<persistFrame, bgDB>>

\* Glicko2PlayerStorage::SaveRating(playerGuid)
PlayerSaveRating(guid) ==
    /\ bgDB' = BGSaveRating(bgRatings, bgDB, guid)
    /\ lastStore' = [op |-> "PlayerSaveRating", guid |-> guid, bracket |-> 0]
    /\ UNCHANGED <<persistFrame, arenaDB>>

\* Glicko2PlayerStorage::SaveAll()
PlayerSaveAll ==
    /\ bgDB' = BGSaveAll(bgRatings, bgDB)
    /\ lastStore' = [op |-> "PlayerSaveAll", guid |-> 0, bracket |-> 0]
    /\ UNCHANGED <<persistFrame, arenaDB>>

PersistInit == InitWith(BaseConf)

PersistNext ==
    \/ \E k \in PersistKeys : \E data \in PersistArenaRecords(k[2]) :
          SetRating(k[1], k[2], data)
    \/ \E g \in PersistGuids : \E data \in PersistBGRecords : PlayerSetRating(g, data)
    \/ \E k \in PersistKeys : SaveRating(k[1], k[2])
    \/ \E g \in PersistGuids : SaveAllRatings(g)
    \/ SaveAll
    \/ \E g \in PersistGuids : PlayerSaveRating(g)
    \/ PlayerSaveAll

SpecPersist == PersistInit /\ [][PersistNext]_vars

\* ------------------------------ specification: the player script hooks
HookPlayers == {1, 2}

\* The player whose arena ratings the run stores.
HookArenaGuid == 1

hookFrame == <<cfg, thrVars, mgrVars, gateVars, matchVars, rangeCalls, lastGate,
               lastSettle>>

\* Glicko2PlayerScript::OnPlayerLogin
OnPlayerLogin(guid) ==
    /\ bgRatings' = IF cfg.Enabled THEN BGLoadRating(bgRatings, bgDB, guid) ELSE bgRatings
    /\ lastStore' = [op |-> "OnPlayerLogin", guid |-> guid, bracket |-> 0]
    /\ UNCHANGED <<hookFrame, arenaRatings, dbVars>>

\* Glicko2PlayerScript::OnPlayerLogout
OnPlayerLogout(guid) ==
    /\ bgDB' = IF cfg.Enabled THEN BGSaveRating(bgRatings, bgDB, guid) ELSE bgDB
    /\ lastStore' = [op |-> "OnPlayerLogout", guid |-> guid, bracket |-> 0]
    /\ UNCHANGED <<hookFrame, storeVars, arenaDB>>

\* Glicko2PlayerScript::OnPlayerSave
OnPlayerSave(guid) ==
    /\ bgDB' = IF cfg.Enabled THEN BGSaveRating(bgRatings, bgDB, guid) ELSE bgDB
    /\ lastStore' = [op |-> "OnPlayerSave", guid |-> guid, bracket |-> 0]
    /\ UNCHANGED <<hookFrame, storeVars, arenaDB>>

\* Glicko2PlayerScript::OnPlayerDelete
OnPlayerDelete(guid) ==
    /\ bgRatings' = IF cfg.Enabled THEN BGRemoveRating(bgRatings, guid) ELSE bgRatings
    /\ lastStore' = [op |-> "OnPlayerDelete", guid |-> guid, bracket |-> 0]
    /\ UNCHANGED <<hookFrame, arenaRatings, dbVars>>

HookInit == \E c \in {BaseConf, [BaseConf EXCEPT !.Enabled = FALSE]} : InitWith(c)

HookNext ==
    \/ \E p \in HookPlayers : OnPlayerLogin(p)
    \/ \E p \in HookPlayers : OnPlayerLogout(p)
    \/ \E p \in HookPlayers : OnPlayerSave(p)
    \/ \E p \in HookPlayers : OnPlayerDelete(p)
    \/ \E p \in HookPlayers : \E data \in PersistBGRecords : PlayerSetRating(p, data)
    \/ \E b \in ManagerBrackets : SetRating(HookArenaGuid, b, PlayedRecord(b))

SpecHook == HookInit /\ [][HookNext]_vars

\* ------------------------ specification: saves running beside writers
\* Threads run the stores' save operations step by step: taking and releasing
\* the store lock, reading the cache, and CharacterDatabase.Execute, which
\* lasts from the step that issues it to the step that completes it.
SaveGuids == {1, 2}
SaveBrackets == {SLOT_2v2, SLOT_3v3}

\* The caches when the saves start: player 1 is loaded in both stores, player 2
\* holds records that were never loaded.
SaveArenaRatings ==
    [k \in {<<1, SLOT_2v2>>, <<1, SLOT_3v3>>, <<2, SLOT_3v3>>} |->
        IF k[1] = 1
        THEN ArenaRatingData(1650, 120, 6, 5, 4, 1, k[2], TRUE)
        ELSE ArenaRatingData(1400, 300, 6, 1, 0, 1, k[2], FALSE)]
SaveBGRatings ==
    [g \in SaveGuids |->
        IF g = 1
        THEN BattlegroundRatingData(1580, 150, 6, 3, 2, 1, TRUE)
        ELSE BattlegroundRatingData(1450, 320, 6, 1, 0, 1, FALSE)]

\* The records the concurrent writers store.
SaveArenaWrite == ArenaRatingData(1700, 100, 6, 6, 5, 1, SLOT_3v3, TRUE)
SaveBGWrite == BattlegroundRatingData(1600, 140, 6, 4, 3, 1, TRUE)

\* A thread inside a save: where it is, the player and slot index it works on,
\* the players still to save, the statement it is executing and where it goes
\* on when the statement has completed.
SaveThread(pc, guid, i, todo, store, key, row, after) ==
    [pc |-> pc, guid |-> guid, i |-> i, todo |-> todo, store |-> store, key |-> key,
     row |-> row, after |-> after]

HoldsShared(m, t) == t \in m.readers
HoldsStoreLock(t) ==
    \/ HoldsShared(storeMutex, t) \/ storeMutex.writer = t
    \/ HoldsShared(playerMutex, t) \/ playerMutex.writer = t

saveFrame ==
    <<cfg, mgrVars, poolMutex, matchMutex, gateVars, matchVars, histVars>>

\* ArenaRatingStorage::SaveRating(playerGuid, bracket): GetRating under the
\* shared lock, then SaveRating(playerGuid, bracket, data) issues the statement.
SaveRatingCall(t, guid, bracket) ==
    /\ thr[t].pc = "idle"
    /\ CanLockShared(storeMutex)
    /\ thr' = [thr EXCEPT ![t] =
                  SaveThread("execute", guid, 0, {}, "arena", <<guid, bracket>>,
                             RowOf(ArenaGetRating(arenaRatings, guid, bracket)), "idle")]
    /\ UNCHANGED <<saveFrame, storeVars, dbVars, storeMutex, playerMutex>>

\* ArenaRatingStorage::SaveAllRatings(playerGuid) is called.
SaveAllRatingsCall(t, guid) ==
    /\ thr[t].pc = "idle"
    /\ thr' = [thr EXCEPT ![t] =
                  SaveThread("saveall_next", 0, 0, {guid}, "none", 0, 0, "idle")]
    /\ UNCHANGED <<saveFrame, storeVars, dbVars, storeMutex, playerMutex>>

\* ArenaRatingStorage::SaveAll(): under the shared lock collect the players with
\* a loaded entry, release the lock, then SaveAllRatings for each of them.
SaveAllCall(t) ==
    /\ thr[t].pc = "idle"
    /\ CanLockShared(storeMutex)
    /\ LET guids == {k[1] : k \in {j \in DOMAIN arenaRatings : arenaRatings[j].loaded}}
       IN thr' = [thr EXCEPT ![t] =
                     IF guids = {} THEN IdleThread
                     ELSE SaveThread("saveall_next", 0, 0, guids, "none", 0, 0, "idle")]
    /\ UNCHANGED <<saveFrame, storeVars, dbVars, storeMutex, playerMutex>>

\* SaveAllRatings: std::shared_lock lock(_mutex), i = 0.
SaveAllRatingsLock(t) ==
    /\ thr[t].pc = "saveall_next"
    /\ CanLockShared(storeMutex)
    /\ storeMutex' = [storeMutex EXCEPT !.readers = @ \cup {t}]
    /\ LET g == CHOOSE x \in thr[t].todo : TRUE
       IN thr' = [thr EXCEPT ![t] =
                     SaveThread("saveall_loop", g, 0, thr[t].todo \ {g}, "none", 0, 0,
                                "idle")]
    /\ UNCHANGED <<saveFrame, storeVars, dbVars, playerMutex>>

\* SaveAllRatings: one turn of for (i = 0; i < MAX_SLOTS; ++i): find the key
\* {playerGuid, static_cast<ArenaBracket>(i)}; a loaded entry is saved after
\* lock.unlock(); after the last turn the function returns and unlocks.
SaveAllRatingsStep(t) ==
    /\ thr[t].pc = "saveall_loop"
    /\ LET me == thr[t]
           key == <<me.guid, me.i>>
       IN IF me.i >= MAX_SLOTS
          THEN /\ storeMutex' = [storeMutex EXCEPT !.readers = @ \ {t}]
               /\ thr' = [thr EXCEPT ![t] =
                             IF me.todo = {} THEN IdleThread
                             ELSE SaveThread("saveall_next", 0, 0, me.todo, "none", 0, 0,
                                             "idle")]
          ELSE IF key \in DOMAIN arenaRatings /\ arenaRatings[key].loaded
          THEN /\ storeMutex' = [storeMutex EXCEPT !.readers = @ \ {t}]
               /\ thr' = [thr EXCEPT ![t].pc = "saveall_unlocked"]
          ELSE /\ thr' = [thr EXCEPT ![t].i = @ + 1]
               /\ UNCHANGED storeMutex
    /\ UNCHANGED <<saveFrame, storeVars, dbVars, playerMutex>>

\* SaveAllRatings: SaveRating(playerGuid, bracket, itr->second) reads the entry
\* through the iterator, the lock released, and issues the statement.
SaveAllRatingsSave(t) ==
    /\ thr[t].pc = "saveall_unlocked"
    /\ LET me == thr[t]
           key == <<me.guid, me.i>>
       IN \E row \in IF key \in DOMAIN arenaRatings
                     THEN {RowOf(arenaRatings[key])}
                     ELSE {Row(r, 0, 0, 0, 0, 0) : r \in FreedValues("rating")} :
             thr' = [thr EXCEPT ![t] =
                        SaveThread("execute", me.guid, me.i, me.todo, "arena", key, row,
                                   "saveall_relock")]
    /\ UNCHANGED <<saveFrame, storeVars, dbVars, storeMutex, playerMutex>>

\* SaveAllRatings: lock.lock() after the save, ++i.
SaveAllRatingsRelock(t) ==
    /\ thr[t].pc = "saveall_relock"
    /\ CanLockShared(storeMutex)
    /\ storeMutex' = [storeMutex EXCEPT !.readers = @ \cup {t}]
    /\ thr' = [thr EXCEPT ![t].pc = "saveall_loop", ![t].i = @ + 1]
    /\ UNCHANGED <<saveFrame, storeVars, dbVars, playerMutex>>

\* Glicko2PlayerStorage::SaveRating(playerGuid): copy a loaded entry under the
\* shared lock, release it, then SaveRating(playerGuid, data) issues the statement.
PlayerSaveRatingCall(t, guid) ==
    /\ thr[t].pc = "idle"
    /\ CanLockShared(playerMutex)
    /\ guid \in DOMAIN bgRatings
    /\ bgRatings[guid].loaded
    /\ thr' = [thr EXCEPT ![t] =
                  SaveThread("execute", guid, 0, {}, "bg", guid, RowOf(bgRatings[guid]),
                             "idle")]
    /\ UNCHANGED <<saveFrame, storeVars, dbVars, storeMutex, playerMutex>>

\* Glicko2PlayerStorage::SaveAll(): std::shared_lock lock(_mutex) for the whole
\* function.
PlayerSaveAllLock(t) ==
    /\ thr[t].pc = "idle"
    /\ CanLockShared(playerMutex)
    /\ playerMutex' = [playerMutex EXCEPT !.readers = @ \cup {t}]
    /\ thr' = [thr EXCEPT ![t] =
                  SaveThread("psaveall_loop", 0, 0, DOMAIN bgRatings, "none", 0, 0, "idle")]
    /\ UNCHANGED <<saveFrame, storeVars, dbVars, storeMutex>>

\* SaveAll: one turn of for (auto const& [guid, data] : _ratings): a loaded
\* entry is passed to SaveRating(guid, data); after the last one the function
\* returns and unlocks.
PlayerSaveAllStep(t) ==
    /\ thr[t].pc = "psaveall_loop"
    /\ LET me == thr[t]
       IN IF me.todo = {}
          THEN /\ playerMutex' = [playerMutex EXCEPT !.readers = @ \ {t}]
               /\ thr' = [thr EXCEPT ![t] = IdleThread]
          ELSE LET g == CHOOSE x \in me.todo : TRUE
               IN /\ thr' = [thr EXCEPT ![t] =
                                IF bgRatings[g].loaded
                                THEN SaveThread("execute", g, 0, me.todo \ {g}, "bg", g,
                                                RowOf(bgRatings[g]), "psaveall_loop")
                                ELSE SaveThread("psaveall_loop", 0, 0, me.todo \ {g},
                                                "none", 0, 0, "idle")]
                  /\ UNCHANGED playerMutex
    /\ UNCHANGED <<saveFrame, storeVars, dbVars, storeMutex>>

\* CharacterDatabase.Execute completes: the row is in the table.
DatabaseExecute(t) ==
    /\ thr[t].pc = "execute"
    /\ LET me == thr[t]
       IN /\ IF me.store = "arena"
             THEN /\ arenaDB' = [k \in DOMAIN arenaDB \cup {me.key} |->
                                    IF k = me.key THEN me.row ELSE arenaDB[k]]
                  /\ UNCHANGED bgDB
             ELSE /\ bgDB' = [k \in DOMAIN bgDB \cup {me.key} |->
                                 IF k = me.key THEN me.row ELSE bgDB[k]]
                  /\ UNCHANGED arenaDB
          /\ thr' = [thr EXCEPT ![t] =
                        IF me.after = "idle" THEN IdleThread
                        ELSE SaveThread(me.after, me.guid, me.i, me.todo, "none", 0, 0,
                                        "idle")]
    /\ UNCHANGED <<saveFrame, storeVars, storeMutex, playerMutex>>

\* A thread calls a store's SetRating or RemoveRating and waits for the
\* exclusive lock.
WriterCall(t, op) ==
    /\ thr[t].pc = "idle"
    /\ thr' = [thr EXCEPT ![t] = SaveThread(op, 1, 0, {}, "none", 0, 0, "idle")]
    /\ UNCHANGED <<saveFrame, storeVars, dbVars, storeMutex, playerMutex>>

\* ArenaRatingStorage::SetRating / RemoveRating on (1, SLOT_3v3) and
\* Glicko2PlayerStorage::SetRating on player 1, each under its exclusive lock.
WriterRun(t) ==
    /\ \/ /\ thr[t].pc = "arena_set"
          /\ CanLockUnique(storeMutex)
          /\ arenaRatings' = ArenaSetRating(arenaRatings, 1, SLOT_3v3, SaveArenaWrite)
          /\ UNCHANGED bgRatings
       \/ /\ thr[t].pc = "arena_remove"
          /\ CanLockUnique(storeMutex)
          /\ arenaRatings' = ArenaRemoveRating(arenaRatings, 1, SLOT_3v3)
          /\ UNCHANGED bgRatings
       \/ /\ thr[t].pc = "bg_set"
          /\ CanLockUnique(playerMutex)
          /\ bgRatings' = BGSetRating(bgRatings, 1, SaveBGWrite)
          /\ UNCHANGED arenaRatings
    /\ thr' = [thr EXCEPT ![t] = IdleThread]
    /\ UNCHANGED <<saveFrame, dbVars, storeMutex, playerMutex>>

SaveInit ==
    /\ cfg = BaseConf
    /\ enabled = TRUE
    /\ initialRating = 1500
    /\ initialRD = 350
    /\ initialVolatility = 6
    /\ bracketSettings = [i \in 0 .. (MAX_SLOTS - 1) |-> DefaultBracketSettings]
    /\ configLoaded = FALSE
    /\ scriptMgr = RunningServer
    /\ arenaRatings = SaveArenaRatings
    /\ bgRatings = SaveBGRatings
    /\ arenaDB = NoRatings
    /\ bgDB = NoRatings
    /\ storeMutex = Unlocked
    /\ playerMutex = Unlocked
    /\ poolMutex = NoOwner
    /\ matchMutex = NoOwner
    /\ thr = [t \in Threads |-> IdleThread]
    /\ poolTracking = NoRatings
    /\ now = StartTime
    /\ activeMatches = NoRatings
    /\ hostBG = NoRatings
    /\ matchCount = 0
    /\ rangeCalls = <<>>
    /\ lastStore = NoStoreOp
    /\ lastGate = NoGate
    /\ lastSettle = NoSettle

SaveNext ==
    \E t \in Threads :
       \/ \E g \in SaveGuids, b \in SaveBrackets : SaveRatingCall(t, g, b)
       \/ \E g \in SaveGuids : SaveAllRatingsCall(t, g)
       \/ SaveAllCall(t)
       \/ SaveAllRatingsLock(t)
       \/ SaveAllRatingsStep(t)
       \/ SaveAllRatingsSave(t)
       \/ SaveAllRatingsRelock(t)
       \/ \E g \in SaveGuids : PlayerSaveRatingCall(t, g)
       \/ PlayerSaveAllLock(t)
       \/ PlayerSaveAllStep(t)
       \/ DatabaseExecute(t)
       \/ \E op \in {"arena_set", "arena_remove", "bg_set"} : WriterCall(t, op)
       \/ WriterRun(t)

SpecSave == SaveInit /\ [][SaveNext]_vars

\* ------------------- specification: UpdateArenaMatch on several threads
\* Each thread makes one UpdateArenaMatch call in this bracket; every GetRating
\* and SetRating inside it is one step (each holds the store's lock), the code
\* between them holds no lock.
RaceBracket == SLOT_3v3

\* The sides the callers pass: every one includes player 1.
RaceSides == {ws \in Sides : 1 \in ws[1] \cup ws[2]}

raceFrame ==
    <<cfg, dbVars, mgrVars, bgRatings, storeMutex, playerMutex, poolMutex, matchMutex,
      gateVars, matchVars, histVars>>

Returned(winnerGuids, loserGuids) ==
    [pc |-> "done", winners |-> winnerGuids, losers |-> loserGuids]

\* The two for loops of UpdateArenaMatch: the next winner, then the next loser,
\* then return.
NextPlayer(winnerGuids, loserGuids, todoW, todoL) ==
    IF todoW # {}
    THEN LET g == CHOOSE x \in todoW : TRUE
         IN [pc |-> "read", winners |-> winnerGuids, losers |-> loserGuids,
             todoW |-> todoW \ {g}, todoL |-> todoL, cur |-> g, won |-> TRUE]
    ELSE IF todoL # {}
    THEN LET g == CHOOSE x \in todoL : TRUE
         IN [pc |-> "read", winners |-> winnerGuids, losers |-> loserGuids,
             todoW |-> todoW, todoL |-> todoL \ {g}, cur |-> g, won |-> FALSE]
    ELSE Returned(winnerGuids, loserGuids)

Opponents(rec) == IF rec.won THEN rec.losers ELSE rec.winners

\* A thread enters UpdateArenaMatch(bg, winnerGuids, loserGuids, RaceBracket).
UpdateArenaMatchEnter(t, winnerGuids, loserGuids) ==
    /\ thr[t].pc = "idle"
    /\ thr' = [thr EXCEPT ![t] =
                  IF ~enabled \/ winnerGuids = {} \/ loserGuids = {}
                  THEN Returned(winnerGuids, loserGuids)
                  ELSE NextPlayer(winnerGuids, loserGuids, winnerGuids, loserGuids)]
    /\ UNCHANGED <<raceFrame, arenaRatings>>

\* UpdatePlayerRating: playerData = sArenaRatingStorage->GetRating(playerGuid, bracket)
UpdatePlayerRatingRead(t) ==
    /\ thr[t].pc = "read"
    /\ thr' = [thr EXCEPT ![t] =
                  [pc |-> "average", winners |-> @.winners, losers |-> @.losers,
                   todoW |-> @.todoW, todoL |-> @.todoL, cur |-> @.cur, won |-> @.won,
                   playerData |-> ArenaGetRating(arenaRatings, @.cur, RaceBracket)]]
    /\ UNCHANGED <<raceFrame, arenaRatings>>

\* UpdatePlayerRating: the opponents' average rating and RD, read from the store.
UpdatePlayerRatingAverage(t) ==
    /\ thr[t].pc = "average"
    /\ thr' = [thr EXCEPT ![t] =
                  [pc |-> "write", winners |-> @.winners, losers |-> @.losers,
                   todoW |-> @.todoW, todoL |-> @.todoL, cur |-> @.cur, won |-> @.won,
                   playerData |->
                       UpdatedPlayerData(@.playerData,
                           ArenaAverageRating(arenaRatings, Opponents(@), RaceBracket),
                           ArenaAverageRD(arenaRatings, Opponents(@), RaceBracket),
                           @.won)]]
    /\ UNCHANGED <<raceFrame, arenaRatings>>

\* UpdatePlayerRating: sArenaRatingStorage->SetRating(playerGuid, bracket, playerData),
\* then on to the next player of the loops.
UpdatePlayerRatingWrite(t) ==
    /\ thr[t].pc = "write"
    /\ arenaRatings' = ArenaSetRating(arenaRatings, thr[t].cur, RaceBracket,
                                      thr[t].playerData)
    /\ thr' = [thr EXCEPT ![t] =
                  NextPlayer(@.winners, @.losers, @.todoW, @.todoL)]
    /\ UNCHANGED raceFrame

RaceInit == InitWith(BaseConf)

RaceNext ==
    \E t \in Threads :
       \/ \E ws \in RaceSides : UpdateArenaMatchEnter(t, ws[1], ws[2])
       \/ UpdatePlayerRatingRead(t)
       \/ UpdatePlayerRatingAverage(t)
       \/ UpdatePlayerRatingWrite(t)

SpecRace == RaceInit /\ [][RaceNext]_vars

\* ================================================================ claims
\* --------------- specification: the locks the handlers take, in order
\* One lock operation of a handler: std::lock_guard / unlock of a std::mutex
\* ("lock", "unlock"), std::shared_lock ("lock_shared", "unlock_shared") or
\* std::unique_lock ("lock_unique", "unlock_unique") of a store's shared_mutex.
\* Mutexes: "match" = _matchMutex, "pool" = _poolMutex, "arena" =
\* ArenaRatingStorage::_mutex, "player" = Glicko2PlayerStorage::_mutex.
LockOp(act, m) == [act |-> act, m |-> m]

\* GetRating: a shared lock for the duration of the call.
SharedCall(m) == <<LockOp("lock_shared", m), LockOp("unlock_shared", m)>>
\* SetRating, RemoveRating, ClearCache, LoadRating's insert: an exclusive lock
\* for the duration of the call.
UniqueCall(m) == <<LockOp("lock_unique", m), LockOp("unlock_unique", m)>>

\* OnBattlegroundAddPlayer: _matchMutex around the tracker update.
AddPlayerLocks == <<LockOp("lock", "match"), LockOp("unlock", "match")>>

\* OnBattlegroundEndReward, arena branch: _matchMutex around UpdateArenaMatch,
\* whose UpdatePlayerRating reads with GetRating and writes with SetRating.
EndRewardArenaLocksNested ==
    <<LockOp("lock", "match")>> \o SharedCall("arena")
        \o <<LockOp("lock_unique", "arena"), LockOp("lock", "pool"), LockOp("unlock", "pool"),
             LockOp("unlock_unique", "arena")>>
        \o <<LockOp("unlock", "match")>>
EndRewardArenaLocks ==
    <<LockOp("lock", "match")>> \o SharedCall("arena") \o UniqueCall("arena")
        \o <<LockOp("unlock", "match")>>

\* OnBattlegroundEndReward, battleground branch: _matchMutex around
\* ProcessMatchRatings, whose averages read with GetRating and whose
\* UpdateTeamRatings reads and writes the battleground store.
EndRewardBattlegroundLocks ==
    <<LockOp("lock", "match")>> \o SharedCall("player") \o UniqueCall("player")
        \o <<LockOp("unlock", "match")>>

\* CanAddGroupToMatchingPool: _poolMutex around the averages, read from the
\* arena store for an arena group and from the battleground store otherwise.
CanAddGroupLocks(m) ==
    <<LockOp("lock", "pool")>> \o SharedCall(m) \o SharedCall(m)
        \o <<LockOp("unlock", "pool")>>

\* ArenaRatingStorage::SaveAllRatings: the shared lock, released around each
\* write and taken again.
SaveAllRatingsLocks ==
    <<LockOp("lock_shared", "arena"), LockOp("unlock_shared", "arena"),
      LockOp("lock_shared", "arena"), LockOp("unlock_shared", "arena")>>

\* The lock sequences of the handlers and store operations threads may run.
HandlerLocks ==
    { AddPlayerLocks, EndRewardArenaLocks, EndRewardBattlegroundLocks,
      CanAddGroupLocks("arena"), CanAddGroupLocks("player"), SaveAllRatingsLocks,
      SharedCall("arena"), UniqueCall("arena"), SharedCall("player"),
      UniqueCall("player") }

orderFrame == <<cfg, mgrVars, storeVars, dbVars, gateVars, matchVars, histVars>>

\* The operation a thread inside a handler executes next.
NextOp(t) == Head(thr[t].ops)
Running(t) == thr[t].pc = "run"
Advanced(t) ==
    [thr EXCEPT ![t] = IF Len(thr[t].ops) = 1 THEN IdleThread
                       ELSE [pc |-> "run", ops |-> Tail(thr[t].ops)]]

\* A thread enters a handler or a store operation.
HandlerCall(t, ops) ==
    /\ thr[t].pc = "idle"
    /\ thr' = [thr EXCEPT ![t] = [pc |-> "run", ops |-> ops]]
    /\ UNCHANGED <<orderFrame, storeMutex, playerMutex, poolMutex, matchMutex>>

\* std::lock_guard lock(_matchMutex) / lock(_poolMutex)
MutexLock(t) ==
    /\ Running(t)
    /\ NextOp(t).act = "lock"
    /\ IF NextOp(t).m = "match"
       THEN matchMutex = NoOwner /\ matchMutex' = t /\ UNCHANGED poolMutex
       ELSE poolMutex = NoOwner /\ poolMutex' = t /\ UNCHANGED matchMutex
    /\ thr' = Advanced(t)
    /\ UNCHANGED <<orderFrame, storeMutex, playerMutex>>

\* The lock_guard goes out of scope.
MutexUnlock(t) ==
    /\ Running(t)
    /\ NextOp(t).act = "unlock"
    /\ IF NextOp(t).m = "match"
       THEN matchMutex' = NoOwner /\ UNCHANGED poolMutex
       ELSE poolMutex' = NoOwner /\ UNCHANGED matchMutex
    /\ thr' = Advanced(t)
    /\ UNCHANGED <<orderFrame, storeMutex, playerMutex>>

\* std::shared_lock lock(_mutex) of a store
StoreLockShared(t) ==
    /\ Running(t)
    /\ NextOp(t).act = "lock_shared"
    /\ IF NextOp(t).m = "arena"
       THEN /\ CanLockShared(storeMutex)
            /\ storeMutex' = [storeMutex EXCEPT !.readers = @ \cup {t}]
            /\ UNCHANGED playerMutex
       ELSE /\ CanLockShared(playerMutex)
            /\ playerMutex' = [playerMutex EXCEPT !.readers = @ \cup {t}]
            /\ UNCHANGED storeMutex
    /\ thr' = Advanced(t)
    /\ UNCHANGED <<orderFrame, poolMutex, matchMutex>>

StoreUnlockShared(t) ==
    /\ Running(t)
    /\ NextOp(t).act = "unlock_shared"
    /\ IF NextOp(t).m = "arena"
       THEN storeMutex' = [storeMutex EXCEPT !.readers = @ \ {t}] /\ UNCHANGED playerMutex
       ELSE playerMutex' = [playerMutex EXCEPT !.readers = @ \ {t}] /\ UNCHANGED storeMutex
    /\ thr' = Advanced(t)
    /\ UNCHANGED <<orderFrame, poolMutex, matchMutex>>

\* std::unique_lock lock(_mutex) of a store
StoreLockUnique(t) ==
    /\ Running(t)
    /\ NextOp(t).act = "lock_unique"
    /\ IF NextOp(t).m = "arena"
       THEN /\ CanLockUnique(storeMutex)
            /\ storeMutex' = [storeMutex EXCEPT !.writer = t]
            /\ UNCHANGED playerMutex
       ELSE /\ CanLockUnique(playerMutex)
            /\ playerMutex' = [playerMutex EXCEPT !.writer = t]
            /\ UNCHANGED storeMutex
    /\ thr' = Advanced(t)
    /\ UNCHANGED <<orderFrame, poolMutex, matchMutex>>

StoreUnlockUnique(t) ==
    /\ Running(t)
    /\ NextOp(t).act = "unlock_unique"
    /\ IF NextOp(t).m = "arena"
       THEN storeMutex' = [storeMutex EXCEPT !.writer = 0] /\ UNCHANGED playerMutex
       ELSE playerMutex' = [playerMutex EXCEPT !.writer = 0] /\ UNCHANGED storeMutex
    /\ thr' = Advanced(t)
    /\ UNCHANGED <<orderFrame, poolMutex, matchMutex>>

\* Whether the thread's next operation can complete, when a shared_mutex makes
\* new readers wait behind a waiting writer (the strictest scheduling the
\* standard allows).
WaitsUnique(u, m) == Running(u) /\ NextOp(u) = LockOp("lock_unique", m)
CanProceed(t) ==
    LET op == NextOp(t)
        mutex == IF op.m = "arena" THEN storeMutex ELSE playerMutex
    IN CASE op.act = "lock" ->
              IF op.m = "match" THEN matchMutex = NoOwner ELSE poolMutex = NoOwner
         [] op.act = "lock_shared" ->
              CanLockShared(mutex) /\ ~\E u \in Threads \ {t} : WaitsUnique(u, op.m)
         [] op.act = "lock_unique" -> CanLockUnique(mutex)
         [] OTHER -> TRUE

OrderInit == InitWith(BaseConf)

OrderNext ==
    \E t \in Threads :
       \/ \E ops \in HandlerLocks : HandlerCall(t, ops)
       \/ MutexLock(t)
       \/ MutexUnlock(t)
       \/ StoreLockShared(t)
       \/ StoreUnlockShared(t)
       \/ StoreLockUnique(t)
       \/ StoreUnlockUnique(t)

SpecOrder == OrderInit /\ [][OrderNext]_vars

\* ------------------- specification: settlements followed by saves
MaxDurableMatches == 1
DurablePlayers == {1, 2}
\* The players whose records are loaded and saved, and their cache keys.
DurableSaved == {1}
DurableKeys == {<<g, b>> : g \in DurableSaved, b \in {SLOT_2v2, SLOT_3v3}}

\* Glicko2BGScript::OnBattlegroundEndReward for the one battleground played.
DurableEndReward(inst, player, winner) ==
    EndRewardEvent(inst, player, winner, MaxDurableMatches)

\* ArenaMMRMgr::UpdateArenaMatch for a one-against-one arena.
DurableArenaMatch(winnerGuid, loserGuid, bracket) ==
    ArenaMatchCall({winnerGuid}, {loserGuid}, bracket, MaxDurableMatches)

DurableInit ==
    /\ SettleInit
    /\ cfg = BaseConf
    /\ \A inst \in Instances : ~hostBG[inst].isArena

DurableNext ==
    \/ \E inst \in Instances, p \in DurablePlayers, team \in {TEAM_ALLIANCE, TEAM_HORDE} :
          OnBattlegroundAddPlayer(inst, p, team)
    \/ \E inst \in Instances, p \in DurablePlayers, winner \in {TEAM_ALLIANCE, TEAM_HORDE} :
          DurableEndReward(inst, p, winner)
    \/ \E w \in DurablePlayers, l \in DurablePlayers, bracket \in {SLOT_2v2, SLOT_3v3} :
          w # l /\ DurableArenaMatch(w, l, bracket)
    \/ \E k \in DurableKeys : LoadRating(k[1], k[2])
    \/ \E g \in DurableSaved : PlayerLoadRating(g)
    \/ \E k \in DurableKeys : SaveRating(k[1], k[2])
    \/ \E g \in DurableSaved : SaveAllRatings(g)
    \/ SaveAll
    \/ \E g \in DurableSaved : PlayerSaveRating(g)
    \/ PlayerSaveAll

SpecDurable == DurableInit /\ [][DurableNext]_vars

\* ----------------------------------------------------------------- C1
\* C1: after RemoveAllRatings(p), HasRating(p, b) is false for every arena
\* bracket b in {2v2, 3v3, 5v5}, whatever p held before, and the ratings of
\* every other player are unchanged.
C1_RemoveAllClearsEveryBracket ==
    [][ lastStore'.op = "RemoveAllRatings" =>
          /\ \A b \in ArenaBrackets : ~ArenaHasRating(arenaRatings', lastStore'.guid, b)
          /\ \A k \in DOMAIN arenaRatings \cup DOMAIN arenaRatings' :
                k[1] # lastStore'.guid =>
                   /\ k \in DOMAIN arenaRatings
                   /\ k \in DOMAIN arenaRatings'
                   /\ arenaRatings'[k] = arenaRatings[k] ]_vars

\* ----------------------------------------------------------------- C2
\* C2: a call of CanAddGroupToMatchingPool with poolPlayerCount = 0 and a
\* non-empty group, with the rating system that applies to the group enabled
\* (Glicko2.Enabled and, for an arena group, Glicko2.Arena.Enabled), returns
\* true whatever the rating distance, and afterwards the pool tracked for the
\* key holds exactly the group's members.
C2_EmptyPoolAdmitsAndSeeds ==
    ( /\ lastGate.op = "CanAdd"
      /\ lastGate.poolPlayerCount = 0
      /\ lastGate.group.Players # {}
      /\ cfg.Enabled
      /\ (IsArenaGroup(lastGate.group) => cfg.ArenaEnabled) )
    => /\ lastGate.result
       /\ lastGate.key \in DOMAIN poolTracking
       /\ poolTracking[lastGate.key].players = lastGate.group.Players

\* A pool that tracked player 1 was reported empty, and the far-rated player 2
\* (1000 points away, tolerance 200) was admitted and is now its only member.
C2_Witness ==
    /\ lastGate.op = "CanAdd"
    /\ lastGate.poolPlayerCount = 0
    /\ lastGate.result
    /\ lastGate.before.players = {1}
    /\ lastGate.group.Players = {2}
    /\ lastGate.group.queueTimeMS = 0
    /\ lastGate.key \in DOMAIN poolTracking
    /\ poolTracking[lastGate.key].players = {2}

\* ----------------------------------------------------------------- C3
\* C3: with poolPlayerCount > 0 and a non-empty group, the candidate is admitted
\* if and only if |groupAvg - poolAvg| <= min(initialRange + relaxationRate *
\* queueTimeSec, maxRange), the averages taken over the candidate's members and
\* the tracked pool members, the triplet being the one configured for the
\* group's category (its arena bracket, or the battleground settings).
C3_AdmitIffWithinConfiguredTolerance ==
    ( /\ lastGate.op = "CanAdd"
      /\ lastGate.reached
      /\ lastGate.poolPlayerCount > 0 )
    => LET group == lastGate.group
           arena == IsArenaGroup(group)
           bracket == BracketOfArenaType(group.ArenaType)
           triplet == IF arena THEN ConfiguredTriplet(bracket) ELSE cfg.BG
           groupAvg == IF arena THEN CalculateArenaRating(group.Players, bracket)
                       ELSE CalculateGroupAverageMMR(group.Players)
           poolAvg == IF arena THEN CalculateArenaRating(lastGate.poolSeen, bracket)
                      ELSE CalculateAverageMMR(lastGate.poolSeen)
           tolerance == Min(triplet.initialRange
                              + triplet.relaxationRate * (group.queueTimeMS \div 1000),
                            triplet.maxRange)
       IN lastGate.result <=>
             (Abs(groupAvg.num * poolAvg.den - poolAvg.num * groupAvg.den)
                 <= tolerance * groupAvg.den * poolAvg.den)

C5_StalePoolsPurgedBeforeEvaluation ==
    [][ ( /\ now' = now
          /\ lastGate'.op = "CanAdd"
          /\ cfg.Enabled
          /\ lastGate'.group.Players # {} )
        => LET key == lastGate'.key
               old == {k \in DOMAIN poolTracking :
                          now - poolTracking[k].lastUpdateTime > 300}
           IN /\ \A k \in old \ {key} : k \notin DOMAIN poolTracking'
              /\ key \in old =>
                    /\ lastGate'.poolSeen = {}
                    /\ poolTracking'[key].players \subseteq lastGate'.group.Players
                    /\ poolTracking'[key].lastUpdateTime \in {0, now}
              /\ \A k \in DOMAIN poolTracking \ old : k \in DOMAIN poolTracking'
              /\ (key \in DOMAIN poolTracking \ old /\ lastGate'.reached
                    /\ lastGate'.poolPlayerCount > 0)
                 => lastGate'.poolSeen = poolTracking[key].players ]_vars

\* A pool with members, last updated 301 seconds before the call, was found by
\* a rating-comparing check, which compared the candidate against no members.
C5_Witness ==
    /\ lastGate.op = "CanAdd"
    /\ lastGate.reached
    /\ lastGate.poolPlayerCount > 0
    /\ lastGate.before.players # {}
    /\ now - lastGate.before.lastUpdateTime = MaxAgeSeconds + 1
    /\ lastGate.poolSeen = {}

\* ----------------------------------------------------------------- C6
\* C6: after the configuration is loaded, GetRelaxedMMRRange(t, b) equals
\* min(initialRange_b + relaxationRate_b * t, maxRange_b) of bracket b's own
\* configured triplet; with 2v2 configured as 150 / 15 / 800 it is 150 at 0 s,
\* 600 at 30 s and 800 at 100 s.
C6_RangeFromConfiguredTriplet ==
    \A i \in 1 .. Len(rangeCalls) :
        LET c == rangeCalls[i]
            s == ConfiguredTriplet(c.bracket)
        IN c.loaded =>
             /\ c.result = Min(s.initialRange + s.relaxationRate * c.t, s.maxRange)
             /\ (c.bracket = SLOT_2v2 /\ cfg.R2v2 = Triplet(150, 800, 15)) =>
                   /\ c.t = 0 => c.result = 150
                   /\ c.t = 30 => c.result = 600
                   /\ c.t = 100 => c.result = 800

\* ----------------------------------------------------------------- C7
\* C7: for every bracket b and queue times t2 >= t1 >= 0, with the settings not
\* changed in between, GetRelaxedMMRRange(t2, b) >= GetRelaxedMMRRange(t1, b),
\* and GetRelaxedMMRRange(t, b) <= maxRange_b for every t.
C7_RangeMonotoneAndCapped ==
    /\ \A i \in 1 .. Len(rangeCalls) :
          LET c == rangeCalls[i]
              s == IF c.loaded THEN ConfiguredTriplet(c.bracket)
                   ELSE DefaultBracketSettings
          IN c.result <= s.maxRange
    /\ \A i, j \in 1 .. Len(rangeCalls) :
          ( /\ rangeCalls[i].bracket = rangeCalls[j].bracket
            /\ rangeCalls[i].loaded = rangeCalls[j].loaded
            /\ rangeCalls[i].t <= rangeCalls[j].t )
          => rangeCalls[i].result <= rangeCalls[j].result

\* ----------------------------------------------------------------- C8
\* C8: the relaxation rate is applied once per 30 seconds of queue time: below
\* the cap, GetRelaxedMMRRange(30, b) = initialRange + relaxationRate,
\* GetRelaxedMMRRange(60, b) = initialRange + 2 * relaxationRate and
\* GetRelaxedMMRRange(90, b) = initialRange + 3 * relaxationRate.
\* Stated over the brackets whose settings are read inside the table (3v3,
\* 5v5), with the settings in force at the call.
C8_RelaxationPer30Seconds ==
    \A i \in 1 .. Len(rangeCalls) :
        LET c == rangeCalls[i]
            s == IF c.loaded THEN ConfiguredTriplet(c.bracket)
                 ELSE DefaultBracketSettings
            claimed == s.initialRange + (c.t \div 30) * s.relaxationRate
        IN (c.bracket \in {SLOT_3v3, SLOT_5v5} /\ c.t \in {30, 60, 90}
               /\ claimed <= s.maxRange)
           => c.result = claimed

\* ----------------------------------------------------------------- C9
\* C9: a settlement with a winner in which the winning side or the losing side
\* has no members changes no rating and no counter of any player, in the arena
\* store and in the battleground store.
C9_EmptySideSettlementIsNoOp ==
    [][ ( /\ matchCount' # matchCount
          /\ ~lastSettle'.draw
          /\ (lastSettle'.winners = {} \/ lastSettle'.losers = {}) )
        => (arenaRatings' = arenaRatings /\ bgRatings' = bgRatings) ]_vars

\* ----------------------------------------------------------------- C10
\* C10: a settlement with a winner and both sides non-empty (rating enabled)
\* increases matchesPlayed by exactly 1 for every participant, wins by exactly 1
\* (losses unchanged) for every winner and losses by exactly 1 (wins unchanged)
\* for every loser, and leaves each participant's new record in the store.
C10_SettlementCountsEveryParticipant ==
    [][ ( /\ matchCount' # matchCount
          /\ ~lastSettle'.draw
          /\ lastSettle'.winners # {}
          /\ lastSettle'.losers # {}
          /\ (lastSettle'.op = "arena" => enabled) )
        => \A p \in lastSettle'.winners \cup lastSettle'.losers :
              LET arena == lastSettle'.op = "arena"
                  b == lastSettle'.bracket
                  old == IF arena THEN ArenaGetRating(arenaRatings, p, b)
                         ELSE BGGetRating(bgRatings, p)
                  new == IF arena THEN ArenaGetRating(arenaRatings', p, b)
                         ELSE BGGetRating(bgRatings', p)
                  won == p \in lastSettle'.winners
              IN /\ IF arena THEN <<p, b>> \in DOMAIN arenaRatings'
                             ELSE p \in DOMAIN bgRatings'
                 /\ new.matchesPlayed = old.matchesPlayed + 1
                 /\ new.wins = old.wins + (IF won THEN 1 ELSE 0)
                 /\ new.losses = old.losses + (IF won THEN 0 ELSE 1) ]_vars

\* ----------------------------------------------------------------- C11
\* C11: within one settlement every participant whose record it writes is rated
\* against the opposing side's average rating and average RD as the store held
\* them before the settlement wrote anything: winners against the losers'
\* pre-match aggregate, losers against the winners' pre-match aggregate.
C11_RatedAgainstPreMatchAggregate ==
    [][ ( /\ matchCount' # matchCount
          /\ lastSettle'.winners # {}
          /\ lastSettle'.losers # {} )
        => \A p \in lastSettle'.winners \cup lastSettle'.losers :
              LET arena == lastSettle'.op = "arena"
                  b == lastSettle'.bracket
                  won == p \in lastSettle'.winners
                  opp == IF won THEN lastSettle'.losers ELSE lastSettle'.winners
                  old == IF arena THEN ArenaGetRating(arenaRatings, p, b)
                         ELSE BGGetRating(bgRatings, p)
                  new == IF arena THEN ArenaGetRating(arenaRatings', p, b)
                         ELSE BGGetRating(bgRatings', p)
                  oppAvg == IF arena THEN ArenaAverageRating(arenaRatings, opp, b)
                            ELSE CalculateAverageMMR(opp).num \div CalculateAverageMMR(opp).den
                  oppRD == IF arena THEN ArenaAverageRD(arenaRatings, opp, b)
                           ELSE CalculateAverageRD(opp)
                  rated == Glicko2UpdateRating(old.rating, old.ratingDeviation,
                               old.volatility, oppAvg, oppRD, IF won THEN 1 ELSE 0)
              IN new # old =>
                    /\ new.rating = rated.rating
                    /\ new.ratingDeviation = rated.ratingDeviation
                    /\ new.volatility = rated.volatility ]_vars

\* ----------------------------------------------------------------- C12
\* C12: a settlement for bracket b changes only the (player, b) ratings of its
\* participants: the ratings of the same players in every other bracket and all
\* ratings of players on neither side are unchanged (and so is the battleground
\* store).
C12_SettlementTouchesOnlyItsBracket ==
    [][ (matchCount' # matchCount /\ lastSettle'.op = "arena")
        => /\ bgRatings' = bgRatings
           /\ \A k \in DOMAIN arenaRatings \cup DOMAIN arenaRatings' :
                 ( \/ k[2] # lastSettle'.bracket
                   \/ k[1] \notin lastSettle'.winners \cup lastSettle'.losers )
                 => /\ k \in DOMAIN arenaRatings
                    /\ k \in DOMAIN arenaRatings'
                    /\ arenaRatings'[k] = arenaRatings[k] ]_vars

\* A match was settled in bracket b and rated a participant who also holds a
\* rating in another bracket, while a player on neither side holds a rating too.
C12_Witness ==
    /\ lastSettle.op = "arena"
    /\ \E p \in lastSettle.winners \cup lastSettle.losers :
          /\ <<p, lastSettle.bracket>> \in DOMAIN arenaRatings
          /\ arenaRatings[<<p, lastSettle.bracket>>].matchesPlayed = 1
          /\ \E b \in ArenaBrackets \ {lastSettle.bracket} :
                /\ <<p, b>> \in DOMAIN arenaRatings
                /\ arenaRatings[<<p, b>>].matchesPlayed = 1
    /\ \E k \in DOMAIN arenaRatings :
          k[1] \notin lastSettle.winners \cup lastSettle.losers

C14_SetThenGetReturnsTheRecord ==
    [][ /\ ( /\ lastStore.op = "SetRating"
             /\ lastStore'.op = "GetRating"
             /\ lastStore'.guid = lastStore.guid
             /\ lastStore'.bracket = lastStore.bracket )
           => lastStore'.result = lastStore.data
        /\ ( /\ lastStore.op = "PlayerSetRating"
             /\ lastStore'.op = "PlayerGetRating"
             /\ lastStore'.guid = lastStore.guid )
           => lastStore'.result = lastStore.data ]_vars

\* A read returned the extreme, not loaded record, which only a SetRating can
\* have put there.
C14_Witness ==
    /\ lastStore.op = "GetRating"
    /\ lastStore.result = ArenaRatingData(4000, 20, 9, 0, 0, 0, lastStore.bracket, FALSE)

\* ----------------------------------------------------------------- C15
\* C15: GetRating on a key absent from the cache returns the configured initial
\* rating, RD and volatility with zero counters and loaded = false, in both
\* stores, and writes nothing to the durable tables.
C15_AbsentKeyReadsConfiguredDefaults ==
    [][ /\ ( /\ lastStore'.op = "GetRating"
             /\ ~ArenaHasRating(arenaRatings, lastStore'.guid, lastStore'.bracket) )
           => /\ lastStore'.result.rating = cfg.ArenaInitialRating
              /\ lastStore'.result.ratingDeviation = cfg.ArenaInitialRD
              /\ lastStore'.result.volatility = cfg.ArenaInitialVolatility
              /\ lastStore'.result.matchesPlayed = 0
              /\ lastStore'.result.wins = 0
              /\ lastStore'.result.losses = 0
              /\ lastStore'.result.loaded = FALSE
              /\ dbVars' = dbVars
        /\ ( /\ lastStore'.op = "PlayerGetRating"
             /\ ~BGHasRating(bgRatings, lastStore'.guid) )
           => /\ lastStore'.result.rating = cfg.InitialRating
              /\ lastStore'.result.ratingDeviation = cfg.InitialRD
              /\ lastStore'.result.volatility = cfg.InitialVolatility
              /\ lastStore'.result.matchesPlayed = 0
              /\ lastStore'.result.wins = 0
              /\ lastStore'.result.losses = 0
              /\ lastStore'.result.loaded = FALSE
              /\ dbVars' = dbVars ]_vars

\* A read of an absent arena key under a configuration that differs from the
\* built-in defaults.
C15_Witness ==
    /\ lastStore.op = "GetRating"
    /\ ~ArenaHasRating(arenaRatings, lastStore.guid, lastStore.bracket)
    /\ cfg.ArenaInitialRating # 1500
    /\ lastStore.result.rating = cfg.ArenaInitialRating

\* ----------------------------------------------------------------- C16
\* C16: a GetRating on a key that is not cached puts the default record into
\* the cache: afterwards HasRating(key) is true and GetCacheSize is one larger.
C16_ReadOfUnseenKeyPopulatesCache ==
    [][ /\ ( /\ lastStore'.op = "GetRating"
             /\ ~ArenaHasRating(arenaRatings, lastStore'.guid, lastStore'.bracket) )
           => /\ ArenaHasRating(arenaRatings', lastStore'.guid, lastStore'.bracket)
              /\ ArenaGetCacheSize(arenaRatings') = ArenaGetCacheSize(arenaRatings) + 1
        /\ ( /\ lastStore'.op = "PlayerGetRating"
             /\ ~BGHasRating(bgRatings, lastStore'.guid) )
           => /\ BGHasRating(bgRatings', lastStore'.guid)
              /\ BGGetCacheSize(bgRatings') = BGGetCacheSize(bgRatings) + 1 ]_vars

\* ----------------------------------------------------------------- C17
\* C17: SetRating and RemoveRating on key (p, b) leave the presence and value of
\* every other key unchanged, and the key holds one value: after SetRating the
\* given record, replacing whatever was there, after RemoveRating nothing.
C17_SetAndRemoveTouchOneKey ==
    [][ lastStore'.op \in {"SetRating", "RemoveRating"} =>
          LET k == <<lastStore'.guid, lastStore'.bracket>>
          IN /\ \A j \in (DOMAIN arenaRatings \cup DOMAIN arenaRatings') \ {k} :
                   /\ j \in DOMAIN arenaRatings
                   /\ j \in DOMAIN arenaRatings'
                   /\ arenaRatings'[j] = arenaRatings[j]
             /\ lastStore'.op = "SetRating" =>
                   /\ k \in DOMAIN arenaRatings'
                   /\ arenaRatings'[k] = lastStore'.data
             /\ lastStore'.op = "RemoveRating" => k \notin DOMAIN arenaRatings'
             /\ bgRatings' = bgRatings ]_vars

\* A RemoveRating of one bracket of a player left that player's other bracket
\* and another player's rating cached.
C17_Witness ==
    /\ lastStore.op = "RemoveRating"
    /\ \E b \in CacheBrackets :
          b # lastStore.bracket /\ ArenaHasRating(arenaRatings, lastStore.guid, b)
    /\ \E p \in CachePlayers, b \in CacheBrackets :
          p # lastStore.guid /\ ArenaHasRating(arenaRatings, p, b)

\* ----------------------------------------------------------------- C18
\* C18: HasRating and GetCacheSize follow the writes: SetRating makes its key
\* present (size + 1 for a new key, unchanged for an existing one), RemoveRating
\* makes it absent (size - 1 if it was present), a load makes its key present
\* when it caches a record, ClearCache leaves no key and size 0, a read changes
\* nothing, and no operation changes the presence of another key.
C18_PresenceAndSizeFollowWrites ==
    [][ LET k == <<lastStore'.guid, lastStore'.bracket>>
            g == lastStore'.guid
            had == ArenaHasRating(arenaRatings, k[1], k[2])
            hadBG == BGHasRating(bgRatings, g)
            size == ArenaGetCacheSize(arenaRatings)
            sizeBG == BGGetCacheSize(bgRatings)
            othersKept == \A j \in (DOMAIN arenaRatings \cup DOMAIN arenaRatings') \ {k} :
                              j \in DOMAIN arenaRatings /\ j \in DOMAIN arenaRatings'
            othersKeptBG == \A j \in (DOMAIN bgRatings \cup DOMAIN bgRatings') \ {g} :
                              j \in DOMAIN bgRatings /\ j \in DOMAIN bgRatings'
        IN /\ lastStore'.op = "SetRating" =>
                 /\ ArenaHasRating(arenaRatings', k[1], k[2]) /\ othersKept
                 /\ ArenaGetCacheSize(arenaRatings') = IF had THEN size ELSE size + 1
           /\ lastStore'.op = "RemoveRating" =>
                 /\ ~ArenaHasRating(arenaRatings', k[1], k[2]) /\ othersKept
                 /\ ArenaGetCacheSize(arenaRatings') = IF had THEN size - 1 ELSE size
           /\ lastStore'.op = "LoadRating" =>
                 /\ ArenaHasRating(arenaRatings', k[1], k[2]) = (had \/ k \in DOMAIN arenaDB)
                 /\ othersKept
                 /\ ArenaGetCacheSize(arenaRatings') =
                       IF had \/ k \notin DOMAIN arenaDB THEN size ELSE size + 1
           /\ lastStore'.op = "ClearCache" =>
                 /\ ArenaGetCacheSize(arenaRatings') = 0
                 /\ \A p \in CachePlayers, b \in CacheBrackets :
                       ~ArenaHasRating(arenaRatings', p, b)
           /\ lastStore'.op = "GetRating" => DOMAIN arenaRatings' = DOMAIN arenaRatings
           /\ lastStore'.op = "PlayerSetRating" =>
                 /\ BGHasRating(bgRatings', g) /\ othersKeptBG
                 /\ BGGetCacheSize(bgRatings') = IF hadBG THEN sizeBG ELSE sizeBG + 1
           /\ lastStore'.op = "PlayerRemoveRating" =>
                 /\ ~BGHasRating(bgRatings', g) /\ othersKeptBG
                 /\ BGGetCacheSize(bgRatings') = IF hadBG THEN sizeBG - 1 ELSE sizeBG
           /\ lastStore'.op = "PlayerLoadRating" =>
                 /\ BGHasRating(bgRatings', g) /\ othersKeptBG
                 /\ BGGetCacheSize(bgRatings') = IF hadBG THEN sizeBG ELSE sizeBG + 1
           /\ lastStore'.op = "PlayerClearCache" =>
                 /\ BGGetCacheSize(bgRatings') = 0
                 /\ \A p \in CachePlayers : ~BGHasRating(bgRatings', p)
           /\ lastStore'.op = "PlayerGetRating" => DOMAIN bgRatings' = DOMAIN bgRatings
      ]_vars

\* ClearCache emptied the arena cache while the battleground cache holds both
\* players, one of them loaded from its row.
C18_Witness ==
    /\ lastStore.op = "ClearCache"
    /\ ArenaGetCacheSize(arenaRatings) = 0
    /\ BGGetCacheSize(bgRatings) = 2
    /\ bgRatings[1].rating = 1480

\* ----------------------------------------------------------------- C19
\* C19: a GetRating that overlaps SetRating or RemoveRating calls on the same
\* key returns a complete record: one that a SetRating stored or the defaults of
\* an absent key, and it is the record the store holds for the key when the
\* read returns; never a mixture of members of two records.
C19_ConcurrentReadIsNeverTorn ==
    [][ \A t \in Threads :
           (thr[t].pc \in {"get_copy", "get_default"} /\ thr'[t].pc = "idle") =>
              /\ lastStore'.result \in
                    LockRecords \cup {ArenaGetRating(NoRatings, LockGuid, LockBracket)}
              /\ lastStore'.result = ArenaGetRating(arenaRatings, LockGuid, LockBracket)
      ]_vars

\* A read returned a stored record while another thread's SetRating or
\* RemoveRating call on the key was waiting for the lock.
C19_Witness ==
    /\ lastStore.op = "GetRating"
    /\ lastStore.overlapped
    /\ lastStore.result \in LockRecords

C21_NoStoreLockDuringDurableWrite ==
    \A t \in Threads : thr[t].pc = "execute" => ~HoldsStoreLock(t)

\* ----------------------------------------------------------------- C22
\* C22: the gate never owns its pool lock while a store operation runs: no
\* thread owns _poolMutex and a store's mutex at the same time.
C22_PoolLockNotHeldDuringStoreRead ==
    \A t \in Threads : HoldsStoreLock(t) => poolMutex # t

\* ----------------------------------------------------------------- C23
\* C23: SaveAllRatings(p) writes a row for every cached, loaded entry of p in
\* every bracket, and SaveAll of either store for every cached, loaded entry:
\* after the call the table holds that entry's values under its key.
C23_SavesCoverEveryLoadedEntry ==
    [][ /\ lastStore'.op = "SaveAllRatings" =>
              \A k \in DOMAIN arenaRatings :
                 (k[1] = lastStore'.guid /\ arenaRatings[k].loaded) =>
                    /\ k \in DOMAIN arenaDB'
                    /\ arenaDB'[k] = RowOf(arenaRatings[k])
        /\ lastStore'.op = "SaveAll" =>
              \A k \in DOMAIN arenaRatings :
                 arenaRatings[k].loaded =>
                    /\ k \in DOMAIN arenaDB'
                    /\ arenaDB'[k] = RowOf(arenaRatings[k])
        /\ lastStore'.op = "PlayerSaveAll" =>
              \A g \in DOMAIN bgRatings :
                 bgRatings[g].loaded =>
                    /\ g \in DOMAIN bgDB'
                    /\ bgDB'[g] = RowOf(bgRatings[g]) ]_vars

\* ----------------------------------------------------------------- C24
\* C24: a save that reads the cache (SaveRating(key), SaveAllRatings, SaveAll of
\* either store) writes no row for a key that is not cached or whose cached
\* record is not loaded: every row it adds belongs to a cached, loaded entry.
C24_SavesWriteOnlyLoadedEntries ==
    [][ lastStore'.op \in {"SaveRating", "SaveAllRatings", "SaveAll",
                           "PlayerSaveRating", "PlayerSaveAll"} =>
          /\ \A k \in DOMAIN arenaDB' \ DOMAIN arenaDB :
                k \in DOMAIN arenaRatings /\ arenaRatings[k].loaded
          /\ \A g \in DOMAIN bgDB' \ DOMAIN bgDB :
                g \in DOMAIN bgRatings /\ bgRatings[g].loaded ]_vars

\* ----------------------------------------------------------------- C25
\* C25: LoadRating of a key with no row leaves the cache as it was for that
\* key (absent stays absent, a cached value is kept); with a row the cache
\* entry becomes the row's values with loaded = true. Both stores.
C25_LoadWithoutRowLeavesCacheAlone ==
    [][ /\ lastStore'.op = "LoadRating" =>
              LET k == <<lastStore'.guid, lastStore'.bracket>>
              IN IF k \in DOMAIN arenaDB
                 THEN /\ k \in DOMAIN arenaRatings'
                      /\ RowOf(arenaRatings'[k]) = arenaDB[k]
                      /\ arenaRatings'[k].loaded
                 ELSE /\ (k \in DOMAIN arenaRatings') = (k \in DOMAIN arenaRatings)
                      /\ k \in DOMAIN arenaRatings => arenaRatings'[k] = arenaRatings[k]
        /\ lastStore'.op = "PlayerLoadRating" =>
              LET g == lastStore'.guid
              IN IF g \in DOMAIN bgDB
                 THEN /\ g \in DOMAIN bgRatings'
                      /\ RowOf(bgRatings'[g]) = bgDB[g]
                      /\ bgRatings'[g].loaded
                 ELSE /\ (g \in DOMAIN bgRatings') = (g \in DOMAIN bgRatings)
                      /\ g \in DOMAIN bgRatings => bgRatings'[g] = bgRatings[g] ]_vars

\* ----------------------------------------------------------------- C26
\* C26: the cached value wins over the table: a LoadRating that follows a
\* SetRating of the same key leaves the stored value in place, so the next
\* GetRating still returns it. Both stores.
C26_LoadKeepsTheStoredValue ==
    [][ /\ (lastStore.op = "SetRating" /\ lastStore'.op = "LoadRating"
            /\ lastStore'.guid = lastStore.guid
            /\ lastStore'.bracket = lastStore.bracket) =>
              ArenaGetRating(arenaRatings', lastStore.guid, lastStore.bracket)
                 = lastStore.data
        /\ (lastStore.op = "PlayerSetRating" /\ lastStore'.op = "PlayerLoadRating"
            /\ lastStore'.guid = lastStore.guid) =>
              BGGetRating(bgRatings', lastStore.guid) = lastStore.data ]_vars

\* ----------------------------------------------------------------- C27
\* C27: every aggregator returns the configured initial rating for an empty set
\* of players: the arena CalculateAverageRating, the battleground team/pool
\* average CalculateAverageMMR, and the gate's group averages.
C27_EmptyAverageIsConfiguredInitial ==
    /\ (lastStore.op = "CalculateAverageRating" /\ lastStore.players = {}) =>
          lastStore.result = cfg.ArenaInitialRating
    /\ (lastStore.op = "CalculateArenaRating" /\ lastStore.players = {}) =>
          lastStore.result = Frac(cfg.ArenaInitialRating, 1)
    /\ (lastStore.op = "CalculateAverageMMR" /\ lastStore.players = {}) =>
          lastStore.result = Frac(cfg.InitialRating, 1)
    /\ (lastStore.op = "CalculateGroupAverageMMR" /\ lastStore.players = {}) =>
          lastStore.result = Frac(cfg.InitialRating, 1)

C29_DeleteLeavesNoCachedRating ==
    lastStore.op = "OnPlayerDelete" =>
        /\ lastStore.guid \notin DOMAIN bgRatings
        /\ \A k \in DOMAIN arenaRatings : k[1] # lastStore.guid

\* ----------------------------------------------------------------- C30
\* C30: UpdateRating with no opponents returns the input's rating and
\* volatility and a rating deviation strictly greater than the input's.
C30_InactivityOnlyInflatesRD ==
    (lastStore.op = "UpdateRating" /\ lastStore.opponents = <<>>) =>
        /\ lastStore.result.rating = lastStore.rating
        /\ lastStore.result.volatility = lastStore.volatility
        /\ lastStore.result.ratingDeviationCenti > 100 * lastStore.ratingDeviation

\* The engine was asked about a new player's deviation and the lowest
\* volatility, with no opponents, and returned a larger deviation.
C30_Witness ==
    /\ lastStore.op = "UpdateRating"
    /\ lastStore.opponents = <<>>
    /\ lastStore.ratingDeviation = 350
    /\ lastStore.volatility = 3
    /\ lastStore.result.ratingDeviationCenti > 35000

C32_BracketSlotsIndexTheSettingsTable ==
    \A i \in 1 .. Len(rangeCalls) :
       LET c == rangeCalls[i]
       IN /\ c.bracket \in ArenaBrackets
          /\ c.bracket < MAX_SLOTS
          /\ c.bracket = CASE c.bracket = SLOT_2v2 -> 0
                           [] c.bracket = SLOT_3v3 -> 1
                           [] c.bracket = SLOT_5v5 -> 2
          /\ c.loaded => c.result = RelaxedRange(ConfiguredTriplet(c.bracket), c.t)

\* ----------------------------------------------------------------- C33
\* C33: with Glicko2 and arena rating enabled, the first OnBattlegroundEndReward
\* event of an arena instance whose winning and losing sides are both non-empty
\* applies UpdateArenaMatch to those sides, whatever OnBattlegroundAddPlayer
\* events came before, and no later event of the instance changes a rating.
C33_ArenaMatchSettledExactlyOnce ==
    [][ \A inst \in Instances :
          LET bg == hostBG[inst]
              winner == hostBG'[inst].winner
              winnerGuids == {q \in HostPlayers(bg) : bg.team[q] = winner}
              loserGuids == HostPlayers(bg) \ winnerGuids
          IN (bg.isArena /\ cfg.Enabled /\ cfg.ArenaEnabled /\ enabled
                 /\ hostBG'[inst].rewarded # bg.rewarded)
             => IF bg.rewarded = {}
                THEN (winnerGuids # {} /\ loserGuids # {}) =>
                        arenaRatings' = UpdateArenaMatch(arenaRatings, winnerGuids,
                                            loserGuids, BracketOfArenaType(bg.arenaType))
                ELSE arenaRatings' = arenaRatings ]_vars

C35_WinnerCreditedDrawIgnored ==
    [][ (matchCount' # matchCount /\ lastSettle'.op = "bg")
        => IF lastSettle'.draw
           THEN bgRatings' = bgRatings
           ELSE \A p \in lastSettle'.winners \cup lastSettle'.losers :
                  LET old == BGGetRating(bgRatings, p)
                      new == BGGetRating(bgRatings', p)
                      won == p \in lastSettle'.winners
                  IN /\ new.matchesPlayed = old.matchesPlayed + 1
                     /\ new.wins = old.wins + (IF won THEN 1 ELSE 0)
                     /\ new.losses = old.losses + (IF won THEN 0 ELSE 1) ]_vars

\* ----------------------------------------------------------------- C36
\* C36: once every player recorded for a match instance has received its
\* OnBattlegroundEndReward event, the instance has no entry in _activeMatches,
\* for battlegrounds and for arenas, so that a later match with the same
\* instance id starts from a fresh, unprocessed tracker.
C36_TrackerRemovedAfterLastReward ==
    \A inst \in Instances :
        ( /\ hostBG[inst].winner # NoWinner
          /\ hostBG[inst].rewarded = HostPlayers(hostBG[inst]) )
        => inst \notin DOMAIN activeMatches

\* ----------------------------------------------------------------- C37
\* C37: a save that covers a player writes the player's settled record: after
\* SaveAll, SaveAllRatings(player) or SaveRating(player, ...) of either store,
\* durable storage holds the rating and the counters of every covered cache
\* entry that has played a match, also when the settlement created the entry
\* from the defaults.
C37_SaveAfterSettlementPersists ==
    [][ UNCHANGED <<storeVars, matchVars>>
        => /\ \A k \in DOMAIN arenaRatings :
                ( /\ arenaRatings[k].matchesPlayed > 0
                  /\ \/ lastStore'.op = "SaveAll"
                     \/ lastStore'.op = "SaveAllRatings" /\ lastStore'.guid = k[1]
                     \/ lastStore'.op = "SaveRating" /\ lastStore'.guid = k[1]
                                                     /\ lastStore'.bracket = k[2] )
                => /\ k \in DOMAIN arenaDB'
                   /\ arenaDB'[k] = RowOf(arenaRatings[k])
           /\ \A g \in DOMAIN bgRatings :
                ( /\ bgRatings[g].matchesPlayed > 0
                  /\ \/ lastStore'.op = "PlayerSaveAll"
                     \/ lastStore'.op = "PlayerSaveRating" /\ lastStore'.guid = g )
                => /\ g \in DOMAIN bgDB'
                   /\ bgDB'[g] = RowOf(bgRatings[g]) ]_vars

\* ----------------------------------------------------------------- C38
\* C38: SaveAllRatings writes what it copied from the cache entry while it held
\* the store lock: whenever it reads the entry it is about to write, the entry
\* is in the cache, whatever RemoveRating or SetRating calls other threads have
\* made since the lock was released.
C38_SaveAllRatingsWritesLockedSnapshot ==
    [][ \A t \in Threads :
          (thr[t].pc = "saveall_unlocked" /\ thr'[t].pc = "execute")
          => /\ <<thr[t].guid, thr[t].i>> \in DOMAIN arenaRatings
             /\ thr'[t].row = RowOf(arenaRatings[<<thr[t].guid, thr[t].i>>]) ]_vars

\* ----------------------------------------------------------------- C40
\* C40: the loader registers every script the module defines, the world script
\* included, and so the settings are loaded when the server runs: once the
\* loader has run every script of the module is registered, and no admission
\* check is made before ArenaMMRMgr::LoadConfig has run.
C40_LoaderRegistersEveryScript ==
    /\ scriptMgr.phase # "loading" => ModuleScripts \subseteq scriptMgr.scripts
    /\ scriptMgr.phase = "running" => configLoaded
    /\ \A i \in 1 .. Len(rangeCalls) : rangeCalls[i].loaded

\* ----------------------------------------------------------------- C39
\* C39: no interleaving of the handlers and store operations deadlocks: no
\* thread owns the match lock and the pool lock together, a thread that owns or
\* is about to take a store lock owns at most one of them, no thread takes the
\* match lock or the pool lock while it owns a store lock, and whenever threads
\* are inside handlers one of them can complete its next lock operation.
C39_LockOrderNeverDeadlocks ==
    /\ \A t \in Threads : ~(matchMutex = t /\ poolMutex = t)
    /\ \A t \in Threads :
          (Running(t) /\ NextOp(t).act = "lock") => ~HoldsStoreLock(t)
    /\ (\E t \in Threads : Running(t))
          => \E t \in Threads : Running(t) /\ CanProceed(t)

\* One thread is settling an arena match, owning the match lock and writing the
\* arena store under its exclusive lock, while another owns the pool lock and
\* waits to read the same store.
C39_Witness ==
    \E t \in Threads, u \in Threads :
       /\ matchMutex = t
       /\ storeMutex.writer = t
       /\ poolMutex = u
       /\ Running(u)
       /\ NextOp(u) = LockOp("lock_shared", "arena")

=============================================================================
